---- MODULE Spec2Model ----
(***************************************************************************)
(* Model of the usage aggregation engine of the token report front end,    *)
(* web/src/utils/data.ts: range resolution, statistics, pricing, cost and  *)
(* merge.                                                                  *)
(*                                                                         *)
(* Representation.                                                         *)
(*  - An ISO string is a natural number under an order-preserving          *)
(*    encoding of JavaScript's string comparison: the date-only string of  *)
(*    day d is d * TimeSlots, and a timestamp of day d with a time part    *)
(*    ("...T08:00:00") is d * TimeSlots + t with 0 < t < TimeSlots.  A     *)
(*    proper prefix sorts first, so the date-only string is less than      *)
(*    every timestamp of its day and greater than those of the day before. *)
(*  - A model name is a sequence of atoms; an atom stands for a fixed run  *)
(*    of characters ("gpt-5", ".1", "-", "mini"), and " ", "(", ")", the    *)
(*    fullwidth parentheses and ":" are atoms of their own.                *)
(*  - null / undefined is the empty sequence NULL; a present value v of a  *)
(*    nullable field or result is Some(v) = <<v>>.                         *)
(*  - A JavaScript object used as a map is a function; where the code      *)
(*    depends on the insertion order of the keys (Object.keys), the map is *)
(*    a record [keys |-> sequence of keys in insertion order, rec |-> the  *)
(*    function].                                                           *)
(*  - Money is exact: a rate is a whole number of tenths of a USD per       *)
(*    million tokens and costUSD is a whole number of 1/10000000 USD       *)
(*    (tokens * rate, the division by 1_000_000 left in the unit).         *)
(*    Floating point rounding is not modelled.                             *)
(*  - Indices are the code's: 0-based; At(a, i) reads a[i].                *)
(***************************************************************************)
EXTENDS Integers, Sequences, FiniteSets, TLC

VARIABLES
    datasets,   \* mergeReportData: the argument, a sequence of ReportData
    merged,     \* mergeReportData(datasets)
    swapped,    \* mergeReportData(datasets in reverse order)
    data,       \* calcRangedView / computeStats: the aggregate
    reqStart,   \* calcRangedView: requested startISO
    reqEnd,     \* calcRangedView: requested endISO
    view,       \* calcRangedView(data, reqStart, reqEnd)
    stats,      \* computeStats(data, view)
    model,      \* resolvePricing: the model name
    book,       \* resolvePricing: the PricingBook
    rec,        \* costUSD: the ModelTokenBreakdown
    priced,     \* resolvePricing(model, book)
    cost,       \* costUSD(rec, priced)
    walkAliases,\* deAlias: the alias table
    walkStart,  \* deAlias: the starting name
    walkCursor, \* deAlias: cursor
    walkSeen,   \* deAlias: seen
    walkSteps,  \* deAlias: number of replacements made so far
    normalizedName, \* normalizeModelName(model)
    activeRange,\* App: the active range preset
    tzAhead,    \* the runtime's local time zone is ahead of UTC
    maxPoints,  \* buildChartSeries: maxPoints
    chart,      \* buildChartSeries(data, view, maxPoints)
    parsed,     \* normalizeImportedData: the parsed JSON value
    imported,   \* the outcome of normalizeImportedData(parsed)
    loose,      \* an object normalizeImportedData accepted, with its absent fields
    outcomes,   \* what mergeReportData, computeStats, buildChartSeries did on it
    current,    \* useReportData: the data state
    files,      \* importFiles: the batch
    fileIndex,  \* importFiles: files handled so far
    accepted,   \* importFiles: imported
    invalid,    \* importFiles: invalid
    result,     \* importFiles: how the promise settled
    importing,  \* App: importing
    importStatus, \* App: importStatus
    regrouped,  \* mergeReportData([mergeReportData([A, B]), C])
    heap,       \* the objects of the JavaScript heap, by address
    roots,      \* the addresses of the members of each input aggregate
    results,    \* what the calls on the heap returned
    rangeLoading, \* App: rangeLoading
    timerRef,   \* App: timerRef.current, the id of the last timer set
    timers,     \* window: the timers set and not yet fired or cleared
    mounted,    \* App is mounted
    requests,   \* the ranges asked for since the last switch
    pc          \* position of the run

coreVars == <<datasets, merged, swapped, data, reqStart, reqEnd, view, stats,
              model, book, rec, priced, cost>>

walkVars == <<walkAliases, walkStart, walkCursor, walkSeen, walkSteps>>

auxVars == <<walkVars, normalizedName, activeRange, tzAhead, maxPoints, chart, parsed, imported>>

looseVars == <<loose, outcomes>>

flowVars == <<current, files, fileIndex, accepted, invalid, result, importing, importStatus>>

heapVars == <<heap, roots, results>>

switchVars == <<rangeLoading, timerRef, timers, mounted, requests>>

restVars == <<regrouped, heapVars, switchVars>>

extraVars == <<looseVars, flowVars, restVars>>

vars == <<coreVars, auxVars, extraVars, pc>>

------------------------------------------------------------
(* Bounds of the model *)

MaxDay == 3

MaxLen == 2

TimeSlots == 2

(* Program constants *)

HOURS == 24

NULL == << >>

Some(v) == <<v>>

EmptyMap == << >>

----------------------------------------------------------------------------
(* Generic helpers *)

Range(s) == {s[i] : i \in DOMAIN s}

Min(a, b) == IF a <= b THEN a ELSE b

Max(a, b) == IF a >= b THEN a ELSE b

\* values[i] || 0 : an index outside the array reads undefined
OrZero(values, i) == IF i \in DOMAIN values THEN values[i] ELSE 0

\* map[key] || default
Lookup(map, key, default) == IF key \in DOMAIN map THEN map[key] ELSE default

Put(map, key, value) == [k \in (DOMAIN map) \cup {key} |->
                            IF k = key THEN value ELSE map[k]]

RECURSIVE InsertSorted(_, _)
InsertSorted(s, x) ==
    IF s = << >> THEN <<x>>
    ELSE IF x <= Head(s) THEN <<x>> \o s
    ELSE <<Head(s)>> \o InsertSorted(Tail(s), x)

\* Array.prototype.sort() on ISO strings: ascending in string order
RECURSIVE SortAsc(_)
SortAsc(s) == IF s = << >> THEN << >> ELSE InsertSorted(SortAsc(Tail(s)), Head(s))

RECURSIVE Reverse(_)
Reverse(s) == IF s = << >> THEN << >> ELSE Append(Reverse(Tail(s)), Head(s))

RECURSIVE SumOver(_, _)
SumOver(S, f) == IF S = {} THEN 0
                 ELSE LET x == CHOOSE y \in S : TRUE
                      IN  f[x] + SumOver(S \ {x}, f)

----------------------------------------------------------------------------
(* Model names: normalizeModelName *)

IsSpace(c) == c = " "

\* "(" and the fullwidth left parenthesis U+FF08, written "FW("
IsOpen(c) == c \in {"(", "FW("}

\* ")" and the fullwidth right parenthesis U+FF09, written "FW)"
IsClose(c) == c \in {")", "FW)"}

UNKNOWN == <<"unknown">>

RECURSIVE TrimLeft(_)
TrimLeft(s) == IF s # << >> /\ IsSpace(Head(s)) THEN TrimLeft(Tail(s)) ELSE s

RECURSIVE TrimRight(_)
TrimRight(s) == IF s # << >> /\ IsSpace(s[Len(s)])
                THEN TrimRight(SubSeq(s, 1, Len(s) - 1)) ELSE s

\* String.prototype.trim
Trim(s) == TrimRight(TrimLeft(s))

\* first index >= i that holds no whitespace, Len(s) + 1 if none
RECURSIVE SkipSpace(_, _)
SkipSpace(s, i) == IF i <= Len(s) /\ IsSpace(s[i]) THEN SkipSpace(s, i + 1) ELSE i

\* head.replace(/\s*[(FW(][^)FW)]*[)FW)]\s*/g, " "): leftmost match, the
\* whitespace runs taken whole, the parenthetical closed by the first closing
\* parenthesis after the opening one
RECURSIVE StripParensFrom(_, _)
StripParensFrom(s, i) ==
    IF i > Len(s) THEN << >>
    ELSE LET j == SkipSpace(s, i)
             closes == {k \in (j + 1)..Len(s) : IsClose(s[k])}
         IN  IF j <= Len(s) /\ IsOpen(s[j]) /\ closes # {}
             THEN LET k == CHOOSE c \in closes : \A d \in closes : c <= d
                  IN  <<" ">> \o StripParensFrom(s, SkipSpace(s, k + 1))
             ELSE <<s[i]>> \o StripParensFrom(s, i + 1)

StripParens(s) == StripParensFrom(s, 1)

\* .replace(/\s+/g, " ")
RECURSIVE CollapseSpace(_)
CollapseSpace(s) ==
    IF s = << >> THEN << >>
    ELSE IF IsSpace(Head(s))
         THEN <<" ">> \o CollapseSpace(TrimLeft(s))
         ELSE <<Head(s)>> \o CollapseSpace(Tail(s))

\* raw.split(":")[0]
RECURSIVE SplitHead(_)
SplitHead(s) == IF s = << >> \/ Head(s) = ":" THEN << >>
                ELSE <<Head(s)>> \o SplitHead(Tail(s))

\* raw.split(":").slice(1).join(":")
SplitTail(s) == LET h == Len(SplitHead(s))
                IN  IF h >= Len(s) THEN << >> ELSE SubSeq(s, h + 2, Len(s))

\* normalizeModelName reattaching the remainder as it stands
normalizeModelNameVerbatim(name) ==
    LET raw == Trim(name)
    IN  IF raw = << >> THEN UNKNOWN
        ELSE LET cleanHead == Trim(CollapseSpace(StripParens(SplitHead(raw))))
                 base      == IF cleanHead = << >> THEN UNKNOWN ELSE cleanHead
                 suffix    == SplitTail(raw)
             IN  IF suffix # << >> THEN base \o <<":">> \o suffix ELSE base

normalizeModelName(name) ==
    LET raw == Trim(name)
    IN  IF raw = << >> THEN UNKNOWN
        ELSE LET cleanHead == Trim(CollapseSpace(StripParens(SplitHead(raw))))
                 base      == IF cleanHead = << >> THEN UNKNOWN ELSE cleanHead
                 suffix    == Trim(SplitTail(raw))
             IN  IF suffix # << >> THEN base \o <<":">> \o suffix ELSE base

----------------------------------------------------------------------------
(* Dataset Merger: mergeReportData *)

ZeroDay == [total |-> 0, input |-> 0, output |-> 0, reasoning |-> 0, cached |-> 0]

ZeroBreakdown == [input_tokens |-> 0, cached_input_tokens |-> 0, output_tokens |-> 0,
                  reasoning_output_tokens |-> 0, total_tokens |-> 0]

AddBreakdown(acc, r) ==
    [input_tokens            |-> acc.input_tokens + r.input_tokens,
     cached_input_tokens     |-> acc.cached_input_tokens + r.cached_input_tokens,
     output_tokens           |-> acc.output_tokens + r.output_tokens,
     reasoning_output_tokens |-> acc.reasoning_output_tokens + r.reasoning_output_tokens,
     total_tokens            |-> acc.total_tokens + r.total_tokens]

EmptyDayMap == [keys |-> << >>, rec |-> EmptyMap]

\* mergeDayMap's loop body assigning the day's values instead of adding them
MergeDayStepOverwrite(dayMap, d, i) ==
    LET day  == d.daily.labels[i]
        seen == day \in DOMAIN dayMap.rec
        new  == [total     |-> OrZero(d.daily.total, i),
                 input     |-> OrZero(d.daily.input, i),
                 output    |-> OrZero(d.daily.output, i),
                 reasoning |-> OrZero(d.daily.reasoning, i),
                 cached    |-> OrZero(d.daily.cached, i)]
    IN  [keys |-> IF seen THEN dayMap.keys ELSE Append(dayMap.keys, day),
         rec  |-> Put(dayMap.rec, day, new)]

\* the body of mergeDayMap's loop for index i
MergeDayStep(dayMap, d, i) ==
    LET day  == d.daily.labels[i]
        seen == day \in DOMAIN dayMap.rec
        old  == IF seen THEN dayMap.rec[day] ELSE ZeroDay
        new  == [total     |-> old.total + OrZero(d.daily.total, i),
                 input     |-> old.input + OrZero(d.daily.input, i),
                 output    |-> old.output + OrZero(d.daily.output, i),
                 reasoning |-> old.reasoning + OrZero(d.daily.reasoning, i),
                 cached    |-> old.cached + OrZero(d.daily.cached, i)]
    IN  [keys |-> IF seen THEN dayMap.keys ELSE Append(dayMap.keys, day),
         rec  |-> Put(dayMap.rec, day, new)]

RECURSIVE MergeDayMapFrom(_, _, _)
MergeDayMapFrom(dayMap, d, i) ==
    IF i > Len(d.daily.labels) THEN dayMap
    ELSE MergeDayMapFrom(MergeDayStep(dayMap, d, i), d, i + 1)

mergeDayMap(dayMap, d) == MergeDayMapFrom(dayMap, d, 1)

\* the models of one day of the source folded into the target's map of that day
RECURSIVE MergeModelMap(_, _, _)
MergeModelMap(target, modelMap, todo) ==
    IF todo = {} THEN target
    ELSE LET m   == CHOOSE x \in todo : TRUE
             key == normalizeModelName(m)
             old == Lookup(target, key, ZeroBreakdown)
         IN  MergeModelMap(Put(target, key, AddBreakdown(old, modelMap[m])),
                           modelMap, todo \ {m})

mergeDailyModels(target, d) ==
    [day \in (DOMAIN target) \cup (DOMAIN d.daily_models) |->
        IF day \in DOMAIN d.daily_models
        THEN MergeModelMap(Lookup(target, day, EmptyMap), d.daily_models[day],
                           DOMAIN d.daily_models[day])
        ELSE target[day]]

ZeroHours == [h \in 1..HOURS |-> 0]

\* hour slot h (1-based here, h - 1 in the code)
AddHours(acc, hours) == [h \in 1..HOURS |-> acc[h] + OrZero(hours, h)]

mergeHourlyDaily(target, d) ==
    [day \in (DOMAIN target) \cup (DOMAIN d.hourly_daily) |->
        IF day \in DOMAIN d.hourly_daily
        THEN AddHours(Lookup(target, day, ZeroHours), d.hourly_daily[day])
        ELSE target[day]]

\* the datasets taken without the filter
ValidDatasetsAll(ds) == ds

\* datasets.filter((item) => item.daily?.labels?.length)
RECURSIVE ValidDatasets(_)
ValidDatasets(ds) ==
    IF ds = << >> THEN << >>
    ELSE IF Len(Head(ds).daily.labels) > 0
         THEN <<Head(ds)>> \o ValidDatasets(Tail(ds))
         ELSE ValidDatasets(Tail(ds))

\* a push that skips the items the target already holds
PushNew(target, items) ==
    target \o SelectSeq(items, LAMBDA x : \A i \in DOMAIN target : target[i] # x)

\* target.push(...items)
PushAll(target, items) == target \o items

EmptyAcc == [dayMap |-> EmptyDayMap, dailyModels |-> EmptyMap, hourlyDaily |-> EmptyMap,
             sessionSpans |-> << >>, events |-> << >>]

\* the loop over the valid datasets (data.ts 359-365)
RECURSIVE MergeAll(_, _)
MergeAll(acc, valid) ==
    IF valid = << >> THEN acc
    ELSE LET d == Head(valid)
         IN  MergeAll([dayMap       |-> mergeDayMap(acc.dayMap, d),
                       dailyModels  |-> mergeDailyModels(acc.dailyModels, d),
                       hourlyDaily  |-> mergeHourlyDaily(acc.hourlyDaily, d),
                       sessionSpans |-> PushAll(acc.sessionSpans, d.session_spans),
                       events       |-> PushAll(acc.events, d.events)],
                      Tail(valid))

\* Object.keys(dayMap) left in insertion order
MergedLabelsUnsorted(dayMap) == dayMap.keys

\* Object.keys(dayMap).sort()
MergedLabels(dayMap) == SortAsc(dayMap.keys)

\* valid.find((item) => item.pricing)?.pricing || { prices: {}, aliases: {} }
EmptyBook == [prices |-> [keys |-> << >>, rec |-> EmptyMap], aliases |-> EmptyMap]

RECURSIVE FirstPricing(_)
FirstPricing(valid) ==
    IF valid = << >> THEN EmptyBook
    ELSE IF Head(valid).pricing # NULL THEN Head(valid).pricing[1]
    ELSE FirstPricing(Tail(valid))

RECURSIVE FirstMeta(_)
FirstMeta(valid) ==
    IF valid = << >> THEN NULL
    ELSE IF Head(valid).meta # NULL THEN Head(valid).meta
    ELSE FirstMeta(Tail(valid))

HourlyTotal(hourlyDaily) ==
    [h \in 1..HOURS |-> SumOver(DOMAIN hourlyDaily, [day \in DOMAIN hourlyDaily |->
                                                        hourlyDaily[day][h]])]

mergeReportData(ds) ==
    LET valid == ValidDatasets(ds)
    IN  IF valid = << >> THEN NULL
        ELSE LET acc    == MergeAll(EmptyAcc, valid)
                 labels == MergedLabels(acc.dayMap)
             IN  IF labels = << >> THEN NULL
                 ELSE Some([range |-> [start |-> labels[1], end |-> labels[Len(labels)],
                                  days |-> Len(labels)],
                       daily |-> [labels    |-> labels,
                                  total     |-> [i \in DOMAIN labels |-> acc.dayMap.rec[labels[i]].total],
                                  input     |-> [i \in DOMAIN labels |-> acc.dayMap.rec[labels[i]].input],
                                  output    |-> [i \in DOMAIN labels |-> acc.dayMap.rec[labels[i]].output],
                                  reasoning |-> [i \in DOMAIN labels |-> acc.dayMap.rec[labels[i]].reasoning],
                                  cached    |-> [i \in DOMAIN labels |-> acc.dayMap.rec[labels[i]].cached]],
                       hourly |-> [total |-> HourlyTotal(acc.hourlyDaily)],
                       hourly_daily  |-> acc.hourlyDaily,
                       daily_models  |-> acc.dailyModels,
                       session_spans |-> acc.sessionSpans,
                       events        |-> acc.events,
                       pricing       |-> Some(FirstPricing(valid)),
                       meta          |-> FirstMeta(valid)])

----------------------------------------------------------------------------
(* Pricing Resolver and Cost Estimator: resolvePricing, costUSD *)

\* the while loop of deAlias: aliases[cursor] && !seen.has(cursor)
AliasContinuesUnseen(aliases, cursor, seen) ==
    cursor \in DOMAIN aliases /\ aliases[cursor] # << >>

AliasContinues(aliases, cursor, seen) ==
    cursor \in DOMAIN aliases /\ aliases[cursor] # << >> /\ cursor \notin seen

RECURSIVE DeAliasFrom(_, _, _)
DeAliasFrom(aliases, cursor, seen) ==
    IF AliasContinues(aliases, cursor, seen)
    THEN DeAliasFrom(aliases, aliases[cursor], seen \cup {cursor})
    ELSE cursor

deAlias(aliases, value) == DeAliasFrom(aliases, value, {})

\* String.prototype.startsWith
StartsWith(s, prefix) ==
    Len(prefix) <= Len(s) /\ SubSeq(s, 1, Len(prefix)) = prefix

\* String.prototype.includes
Includes(s, part) ==
    \E i \in 1..(Len(s) - Len(part) + 1) : SubSeq(s, i, i + Len(part) - 1) = part

GPT5 == <<"gpt-5">>

GPT51 == <<"gpt-5", ".1">>

GPT52 == <<"gpt-5", ".2">>

GPT53 == <<"gpt-5", ".3">>

\* prices[key] || null
PriceOf(prices, key) == IF key \in DOMAIN prices.rec THEN Some(prices.rec[key]) ELSE NULL

\* a || b
OrElse(a, b) == IF a # NULL THEN a ELSE b

\* for (const key of Object.keys(prices)) if (base.startsWith(`${key}-`)) return prices[key]
RECURSIVE PrefixMatch(_, _, _)
PrefixMatch(prices, base, i) ==
    IF i > Len(prices.keys) THEN NULL
    ELSE IF StartsWith(base, prices.keys[i] \o <<"-">>)
         THEN Some(prices.rec[prices.keys[i]])
         ELSE PrefixMatch(prices, base, i + 1)

\* a ladder that falls back to the nearest lower minor version, then to gpt-5
LadderNearestLower(prices, base) ==
    IF Includes(base, GPT53)
    THEN OrElse(PriceOf(prices, GPT52), OrElse(PriceOf(prices, GPT51), PriceOf(prices, GPT5)))
    ELSE IF Includes(base, GPT52)
    THEN OrElse(PriceOf(prices, GPT52), OrElse(PriceOf(prices, GPT51), PriceOf(prices, GPT5)))
    ELSE IF Includes(base, GPT51) THEN OrElse(PriceOf(prices, GPT51), PriceOf(prices, GPT5))
    ELSE IF StartsWith(base, GPT5) THEN PriceOf(prices, GPT5)
    ELSE NULL

\* data.ts 97-101
Ladder(prices, base) ==
    IF Includes(base, GPT53) THEN OrElse(PriceOf(prices, GPT52), PriceOf(prices, GPT5))
    ELSE IF Includes(base, GPT52) THEN PriceOf(prices, GPT52)
    ELSE IF Includes(base, GPT51) THEN PriceOf(prices, GPT51)
    ELSE IF StartsWith(base, GPT5) THEN PriceOf(prices, GPT5)
    ELSE NULL

\* resolvePricing trying the base name before the full name
resolvePricingBaseFirst(name, pricing) ==
    LET b          == IF pricing = NULL THEN EmptyBook ELSE pricing[1]
        prices     == b.prices
        aliases    == b.aliases
        normalized == deAlias(aliases, normalizeModelName(name))
        base       == deAlias(aliases, SplitHead(normalized))
    IN  IF base \in DOMAIN prices.rec THEN Some(prices.rec[base])
        ELSE IF normalized \in DOMAIN prices.rec THEN Some(prices.rec[normalized])
        ELSE IF PrefixMatch(prices, base, 1) # NULL THEN PrefixMatch(prices, base, 1)
        ELSE Ladder(prices, base)

\* pricing is NULL or Some(book): pricing?.prices || {}, pricing?.aliases || {}
resolvePricing(name, pricing) ==
    LET b          == IF pricing = NULL THEN EmptyBook ELSE pricing[1]
        prices     == b.prices
        aliases    == b.aliases
        normalized == deAlias(aliases, normalizeModelName(name))
        base       == deAlias(aliases, SplitHead(normalized))
    IN  IF normalized \in DOMAIN prices.rec THEN Some(prices.rec[normalized])
        ELSE IF base \in DOMAIN prices.rec THEN Some(prices.rec[base])
        ELSE IF PrefixMatch(prices, base, 1) # NULL THEN PrefixMatch(prices, base, 1)
        ELSE Ladder(prices, base)

\* pricingEntry.cached_input || pricingEntry.input: a rate of 0 taken as absent
CachedPriceOr(entry) ==
    IF entry.cached_input = NULL \/ entry.cached_input[1] = 0
    THEN entry.input ELSE entry.cached_input[1]

\* pricingEntry.cached_input ?? pricingEntry.input
CachedPrice(entry) ==
    IF entry.cached_input = NULL THEN entry.input ELSE entry.cached_input[1]

costUSD(r, pricingEntry) ==
    IF pricingEntry = NULL THEN NULL
    ELSE LET entry         == pricingEntry[1]
             billableInput == Max(0, r.input_tokens - r.cached_input_tokens)
             outputTotal   == r.output_tokens + r.reasoning_output_tokens
         IN  Some(billableInput * entry.input
                  + r.cached_input_tokens * CachedPrice(entry)
                  + outputTotal * entry.output)

----------------------------------------------------------------------------
(* Range Resolver: calcRangedView *)

At(a, i) == a[i + 1]

\* labels.indexOf(iso): first index holding iso, -1 if none
IndexOf(labels, iso) ==
    IF \E i \in 0..(Len(labels) - 1) : At(labels, i) = iso
    THEN CHOOSE i \in 0..(Len(labels) - 1) :
            /\ At(labels, i) = iso
            /\ \A j \in 0..(i - 1) : At(labels, j) # iso
    ELSE -1

\* labels.findIndex((label) => label >= iso)
FindIndexGE(labels, iso) ==
    IF \E i \in 0..(Len(labels) - 1) : At(labels, i) >= iso
    THEN CHOOSE i \in 0..(Len(labels) - 1) :
            /\ At(labels, i) >= iso
            /\ \A j \in 0..(i - 1) : ~(At(labels, j) >= iso)
    ELSE -1

\* the backward loop of resolveIndex: last index whose label is <= iso
RECURSIVE LastIndexLE(_, _, _)
LastIndexLE(labels, iso, i) ==
    IF i < 0 THEN Len(labels) - 1
    ELSE IF At(labels, i) <= iso THEN i
    ELSE LastIndexLE(labels, iso, i - 1)

\* resolveIndex rounding the start side backward as well
resolveIndexBackward(labels, iso, startSide) ==
    LET exact == IndexOf(labels, iso)
    IN  IF exact >= 0 THEN exact
        ELSE LastIndexLE(labels, iso, Len(labels) - 1)

resolveIndex(labels, iso, startSide) ==
    LET exact == IndexOf(labels, iso)
    IN  IF exact >= 0 THEN exact
        ELSE IF startSide
             THEN LET idx == FindIndexGE(labels, iso)
                  IN  IF idx >= 0 THEN idx ELSE 0
             ELSE LastIndexLE(labels, iso, Len(labels) - 1)

\* labels.slice(from, to + 1)
Slice(labels, from, to) == SubSeq(labels, from + 1, to + 1)

\* calcRangedView without the final ordering of the two indices
calcRangedViewNoSwap(d, startISO, endISO) ==
    LET labels == d.daily.labels
    IN  IF Len(labels) = 0
        THEN [startISO |-> startISO, endISO |-> endISO, labels |-> << >>,
              startIndex |-> 0, endIndex |-> -1]
        ELSE LET start      == IF startISO > endISO THEN endISO ELSE startISO
                 end        == IF startISO > endISO THEN startISO ELSE endISO
                 startIndex == resolveIndex(labels, start, TRUE)
                 endIndex   == resolveIndex(labels, end, FALSE)
                 safeStart  == Max(0, Min(startIndex, Len(labels) - 1))
                 safeEnd    == Max(0, Min(endIndex, Len(labels) - 1))
             IN  [startISO |-> At(labels, safeStart), endISO |-> At(labels, safeEnd),
                  labels |-> Slice(labels, safeStart, safeEnd),
                  startIndex |-> safeStart, endIndex |-> safeEnd]

\* calcRangedView returning the requested strings as startISO and endISO
calcRangedViewEcho(d, startISO, endISO) ==
    LET labels == d.daily.labels
    IN  IF Len(labels) = 0
        THEN [startISO |-> startISO, endISO |-> endISO, labels |-> << >>,
              startIndex |-> 0, endIndex |-> -1]
        ELSE LET start      == IF startISO > endISO THEN endISO ELSE startISO
                 end        == IF startISO > endISO THEN startISO ELSE endISO
                 startIndex == resolveIndex(labels, start, TRUE)
                 endIndex   == resolveIndex(labels, end, FALSE)
                 safeStart  == Max(0, Min(startIndex, Len(labels) - 1))
                 safeEnd    == Max(0, Min(endIndex, Len(labels) - 1))
                 finalStart == Min(safeStart, safeEnd)
                 finalEnd   == Max(safeStart, safeEnd)
             IN  [startISO |-> start, endISO |-> end,
                  labels |-> Slice(labels, finalStart, finalEnd),
                  startIndex |-> finalStart, endIndex |-> finalEnd]

calcRangedView(d, startISO, endISO) ==
    LET labels == d.daily.labels
    IN  IF Len(labels) = 0
        THEN [startISO |-> startISO, endISO |-> endISO, labels |-> << >>,
              startIndex |-> 0, endIndex |-> -1]
        ELSE LET start      == IF startISO > endISO THEN endISO ELSE startISO
                 end        == IF startISO > endISO THEN startISO ELSE endISO
                 startIndex == resolveIndex(labels, start, TRUE)
                 endIndex   == resolveIndex(labels, end, FALSE)
                 safeStart  == Max(0, Min(startIndex, Len(labels) - 1))
                 safeEnd    == Max(0, Min(endIndex, Len(labels) - 1))
                 finalStart == Min(safeStart, safeEnd)
                 finalEnd   == Max(safeStart, safeEnd)
             IN  [startISO |-> At(labels, finalStart), endISO |-> At(labels, finalEnd),
                  labels |-> Slice(labels, finalStart, finalEnd),
                  startIndex |-> finalStart, endIndex |-> finalEnd]

----------------------------------------------------------------------------
(* Range presets: range.ts *)

TimeRanges == {"1D", "2D", "1W", "1M", "3M", "ALL"}

\* the map of calcRangeByPreset
PresetDays(range) ==
    IF range = "1D" THEN 1
    ELSE IF range = "2D" THEN 2
    ELSE IF range = "1W" THEN 7
    ELSE IF range = "1M" THEN 30
    ELSE 90

\* new Date(iso + "T00:00:00") is local midnight, or invalid when iso already
\* has a time part; toISOString().slice(0, 10) is the UTC date of the shifted
\* instant, which is the day before when the local zone is ahead of UTC
addDaysISO(iso, offset, ahead) ==
    IF iso % TimeSlots # 0 THEN iso
    ELSE iso + (offset - (IF ahead THEN 1 ELSE 0)) * TimeSlots

\* the test !iso never holds of a date string
clampISO(iso, minISO, maxISO) ==
    IF iso < minISO THEN minISO
    ELSE IF iso > maxISO THEN maxISO
    ELSE iso

calcRangeByPreset(range, minISO, maxISO, ahead) ==
    IF range = "ALL" THEN [start |-> minISO, end |-> maxISO]
    ELSE [start |-> clampISO(addDaysISO(maxISO, -(PresetDays(range) - 1), ahead),
                             minISO, maxISO),
          end   |-> maxISO]

----------------------------------------------------------------------------
(* Stats Aggregator: computeStats *)

\* sumRange stopping before end
RECURSIVE sumRangeExclusive(_, _, _)
sumRangeExclusive(values, start, end) ==
    IF start >= end THEN 0
    ELSE OrZero(values, start + 1) + sumRangeExclusive(values, start + 1, end)

RECURSIVE sumRange(_, _, _)
sumRange(values, start, end) ==
    IF start > end THEN 0
    ELSE OrZero(values, start + 1) + sumRange(values, start + 1, end)

RECURSIVE countActive(_, _, _)
countActive(values, start, end) ==
    IF start > end THEN 0
    ELSE (IF OrZero(values, start + 1) > 0 THEN 1 ELSE 0)
         + countActive(values, start + 1, end)

\* overlapSessions with strict comparisons: a span touching an endpoint is missed
RECURSIVE overlapSessionsStrict(_, _, _)
overlapSessionsStrict(spans, startISO, endISO) ==
    IF spans = << >> THEN 0
    ELSE (IF Head(spans).start < endISO /\ Head(spans).end > startISO THEN 1 ELSE 0)
         + overlapSessionsStrict(Tail(spans), startISO, endISO)

RECURSIVE overlapSessions(_, _, _)
overlapSessions(spans, startISO, endISO) ==
    IF spans = << >> THEN 0
    ELSE (IF Head(spans).start <= endISO /\ Head(spans).end >= startISO THEN 1 ELSE 0)
         + overlapSessions(Tail(spans), startISO, endISO)

\* for (const day of labels) { const dayMap = data.daily_models[day] || {}; ... }
RECURSIVE aggregateModelsFrom(_, _, _)
aggregateModelsFrom(out, d, labels) ==
    IF labels = << >> THEN out
    ELSE LET dayMap == Lookup(d.daily_models, Head(labels), EmptyMap)
         IN  aggregateModelsFrom(MergeModelMap(out, dayMap, DOMAIN dayMap), d, Tail(labels))

aggregateModels(d, labels) == aggregateModelsFrom(EmptyMap, d, labels)

\* Math.floor(a / b) in place of Math.round(a / b)
FloorDiv(a, b) == a \div b

\* Math.round(a / b) for a >= 0, b > 0: halves round up
RoundDiv(a, b) == (2 * a + b) \div (2 * b)

\* hasPriced: some bucket resolves a price
HasPriced(modelTotals, pricing) ==
    \E m \in DOMAIN modelTotals : costUSD(modelTotals[m], resolvePricing(m, pricing)) # NULL

\* the estimated cost returned without the hasPriced test
EstimatedCostNoNull(modelTotals, pricing) ==
    Some(SumOver(DOMAIN modelTotals,
                 [m \in DOMAIN modelTotals |->
                     LET c == costUSD(modelTotals[m], resolvePricing(m, pricing))
                     IN  IF c # NULL THEN c[1] ELSE 0]))

\* the loop of data.ts 218-225 and the return's hasPriced ? estimatedCost : null
EstimatedCost(modelTotals, pricing) ==
    IF HasPriced(modelTotals, pricing)
    THEN Some(SumOver(DOMAIN modelTotals,
                      [m \in DOMAIN modelTotals |->
                          LET c == costUSD(modelTotals[m], resolvePricing(m, pricing))
                          IN  IF c # NULL THEN c[1] ELSE 0]))
    ELSE NULL

ZeroRate == [num |-> 0, den |-> 1]

EmptyStats == [totalTokens |-> 0, inputTokens |-> 0, outputTokens |-> 0,
               cachedTokens |-> 0, reasoningTokens |-> 0, cacheRate |-> ZeroRate,
               sessions |-> 0, activeDays |-> 0, avgPerDay |-> 0, avgPerSession |-> 0,
               estimatedCost |-> NULL]

\* computeStats without the test for an empty view
computeStatsUnguarded(d, v) ==
    LET totalTokens     == sumRange(d.daily.total, v.startIndex, v.endIndex)
        inputTokens     == sumRange(d.daily.input, v.startIndex, v.endIndex)
        outputTokens    == sumRange(d.daily.output, v.startIndex, v.endIndex)
        cachedTokens    == sumRange(d.daily.cached, v.startIndex, v.endIndex)
        reasoningTokens == sumRange(d.daily.reasoning, v.startIndex, v.endIndex)
        activeDays      == countActive(d.daily.total, v.startIndex, v.endIndex)
        sessions        == overlapSessions(d.session_spans, v.startISO, v.endISO)
    IN  [totalTokens     |-> totalTokens,
         inputTokens     |-> inputTokens,
         outputTokens    |-> outputTokens,
         cachedTokens    |-> cachedTokens,
         reasoningTokens |-> reasoningTokens,
         cacheRate       |-> IF inputTokens > 0
                             THEN [num |-> cachedTokens, den |-> inputTokens]
                             ELSE ZeroRate,
         sessions        |-> sessions,
         activeDays      |-> activeDays,
         avgPerDay       |-> IF activeDays > 0 THEN RoundDiv(totalTokens, activeDays) ELSE 0,
         avgPerSession   |-> IF sessions > 0 THEN RoundDiv(totalTokens, sessions) ELSE 0,
         estimatedCost   |-> EstimatedCost(aggregateModels(d, v.labels), d.pricing)]

\* cacheRate is the exact fraction num / den
computeStats(d, v) ==
    IF v.endIndex < v.startIndex THEN EmptyStats
    ELSE LET totalTokens     == sumRange(d.daily.total, v.startIndex, v.endIndex)
             inputTokens     == sumRange(d.daily.input, v.startIndex, v.endIndex)
             outputTokens    == sumRange(d.daily.output, v.startIndex, v.endIndex)
             cachedTokens    == sumRange(d.daily.cached, v.startIndex, v.endIndex)
             reasoningTokens == sumRange(d.daily.reasoning, v.startIndex, v.endIndex)
             activeDays      == countActive(d.daily.total, v.startIndex, v.endIndex)
             sessions        == overlapSessions(d.session_spans, v.startISO, v.endISO)
         IN  [totalTokens     |-> totalTokens,
              inputTokens     |-> inputTokens,
              outputTokens    |-> outputTokens,
              cachedTokens    |-> cachedTokens,
              reasoningTokens |-> reasoningTokens,
              cacheRate       |-> IF inputTokens > 0
                                  THEN [num |-> cachedTokens, den |-> inputTokens]
                                  ELSE ZeroRate,
              sessions        |-> sessions,
              activeDays      |-> activeDays,
              avgPerDay       |-> IF activeDays > 0 THEN RoundDiv(totalTokens, activeDays) ELSE 0,
              avgPerSession   |-> IF sessions > 0 THEN RoundDiv(totalTokens, sessions) ELSE 0,
              estimatedCost   |-> EstimatedCost(aggregateModels(d, v.labels), d.pricing)]

----------------------------------------------------------------------------
(* Chart series: buildChartSeries *)

\* the default value of the parameter maxPoints
DefaultMaxPoints == 260

\* day + " " + HH + ":00", kept as the pair of the day and the hour
HourLabel(day, hour) == <<day, hour>>

\* the 24 points pushed for one day
PointsOfDay(d, day) ==
    LET hours == Lookup(d.hourly_daily, day, << >>)
    IN  [k \in 1..HOURS |-> [label |-> HourLabel(day, k - 1), tokens |-> OrZero(hours, k)]]

RECURSIVE buildHourlyPoints(_, _)
buildHourlyPoints(d, labels) ==
    IF labels = << >> THEN << >>
    ELSE PointsOfDay(d, Head(labels)) \o buildHourlyPoints(d, Tail(labels))

\* Math.ceil(a / b) for a >= 0, b > 0
CeilDiv(a, b) == (a + b - 1) \div b

RECURSIVE SumTokens(_)
SumTokens(points) ==
    IF points = << >> THEN 0 ELSE Head(points).tokens + SumTokens(Tail(points))

\* the loop of compressPoints from 0-based index i
RECURSIVE CompressFrom(_, _, _)
CompressFrom(points, i, bucketSize) ==
    IF i >= Len(points) THEN << >>
    ELSE LET slice == SubSeq(points, i + 1, Min(i + bucketSize, Len(points)))
         IN  <<[label |-> slice[Len(slice)].label, tokens |-> SumTokens(slice)]>>
             \o CompressFrom(points, i + bucketSize, bucketSize)

\* compressPoints with the bucket size rounded down
compressPointsFloor(points, limit) ==
    IF Len(points) <= limit THEN points
    ELSE CompressFrom(points, 0, Len(points) \div limit)

compressPoints(points, limit) ==
    IF Len(points) <= limit THEN points
    ELSE CompressFrom(points, 0, CeilDiv(Len(points), limit))

buildChartSeries(d, v, limit) == compressPoints(buildHourlyPoints(d, v.labels), limit)

----------------------------------------------------------------------------
(* Import validation: normalizeImportedData *)

\* a parsed JSON value: its kind, and its members when it is an object. The
\* numbers and the strings are told apart by their truth value only, and the
\* elements of an array are left out.
JValue(kind) == [kind |-> kind, fields |-> EmptyMap]

JUndefined == JValue("undefined")

JNull == JValue("null")

JFalse == JValue("false")

JTrue == JValue("true")

\* the number 0
JZero == JValue("zero")

\* a number other than 0
JNumber == JValue("number")

\* the string ""
JEmpty == JValue("empty")

\* a string other than ""
JString == JValue("string")

JArray == JValue("array")

\* the object with the members given as pairs <<name, value>>
JObject(pairs) ==
    [kind   |-> "object",
     fields |-> [n \in {q[1] : q \in pairs} |-> (CHOOSE q \in pairs : q[1] = n)[2]]]

\* !v is false
Truthy(v) == v.kind \notin {"undefined", "null", "false", "zero", "empty"}

\* typeof v === "object"
TypeofObject(v) == v.kind \in {"null", "array", "object"}

\* Array.isArray(v)
IsArray(v) == v.kind = "array"

\* reading a property of v raises a TypeError
ReadThrows(v) == v.kind \in {"undefined", "null"}

\* v[name] for a v whose properties can be read
Get(v, name) ==
    IF v.kind = "object" /\ name \in DOMAIN v.fields THEN v.fields[name] ELSE JUndefined

Thrown == [outcome |-> "throw", value |-> NULL]

Returned(v) == [outcome |-> "return", value |-> v]

\* normalizeImportedData without the test of data.daily and data.range
normalizeImportedDataUntested(raw) ==
    IF ~Truthy(raw) \/ ~TypeofObject(raw) THEN Returned(NULL)
    ELSE LET root     == raw
             rootData == Get(root, "data")
             data_    == IF Truthy(rootData) /\ TypeofObject(rootData) THEN rootData ELSE root
             daily    == Get(data_, "daily")
         IN  IF ReadThrows(daily) THEN Thrown
             ELSE IF ~IsArray(Get(daily, "labels")) \/ ~IsArray(Get(daily, "total"))
                  THEN Returned(NULL)
             ELSE Returned(Some(data_))

normalizeImportedData(raw) ==
    IF ~Truthy(raw) \/ ~TypeofObject(raw) THEN Returned(NULL)
    ELSE IF ReadThrows(raw) THEN Thrown
    ELSE LET root     == raw
             rootData == Get(root, "data")
             data_    == IF Truthy(rootData) /\ TypeofObject(rootData) THEN rootData ELSE root
             daily    == Get(data_, "daily")
         IN  IF ReadThrows(data_) THEN Thrown
             ELSE IF ~Truthy(daily) \/ ~Truthy(Get(data_, "range")) THEN Returned(NULL)
             ELSE IF ReadThrows(daily) THEN Thrown
             ELSE IF ~IsArray(Get(daily, "labels")) \/ ~IsArray(Get(daily, "total"))
                  THEN Returned(NULL)
             ELSE Returned(Some(data_))

----------------------------------------------------------------------------
(* Objects accepted by normalizeImportedData that lack optional members.    *)
(* Such an object is the pair of agg, the aggregate as the guarded reads see *)
(* it (data.daily_models || {}, data.session_spans || [], ...), and missing, *)
(* the names of the members it does not have.  A read of an element of a     *)
(* member that is missing (data.daily.input[i]) raises a TypeError.          *)

SeriesFields == {"input", "output", "reasoning", "cached"}

OptionalFields ==
    SeriesFields \cup {"daily_models", "hourly_daily", "session_spans", "events", "pricing"}

\* the aggregate with the members named in missing taken away
Without(d, missing) ==
    [range         |-> d.range,
     daily         |-> [labels    |-> d.daily.labels,
                        total     |-> d.daily.total,
                        input     |-> IF "input" \in missing THEN << >> ELSE d.daily.input,
                        output    |-> IF "output" \in missing THEN << >> ELSE d.daily.output,
                        reasoning |-> IF "reasoning" \in missing THEN << >>
                                      ELSE d.daily.reasoning,
                        cached    |-> IF "cached" \in missing THEN << >> ELSE d.daily.cached],
     hourly_daily  |-> IF "hourly_daily" \in missing THEN EmptyMap ELSE d.hourly_daily,
     daily_models  |-> IF "daily_models" \in missing THEN EmptyMap ELSE d.daily_models,
     session_spans |-> IF "session_spans" \in missing THEN << >> ELSE d.session_spans,
     events        |-> IF "events" \in missing THEN << >> ELSE d.events,
     pricing       |-> IF "pricing" \in missing THEN NULL ELSE d.pricing,
     meta          |-> d.meta]

Accepted(d, missing) == [agg |-> Without(d, missing), missing |-> missing]

Aggregates(objects) == [k \in DOMAIN objects |-> objects[k].agg]

\* mergeDayMap reads data.daily.input[i], output[i], reasoning[i], cached[i]
\* once per label
mergeDayMapThrows(o) ==
    Len(o.agg.daily.labels) > 0 /\ o.missing \cap SeriesFields # {}

\* mergeReportData: mergeDayMap runs on the inputs that passed the filter
mergeReportDataOutcome(objects) ==
    IF \E k \in DOMAIN objects : mergeDayMapThrows(objects[k])
    THEN Thrown
    ELSE Returned(mergeReportData(Aggregates(objects)))

\* sumRange reads values[i] for start <= i <= end
sumRangeThrows(o, name, start, end) == start <= end /\ name \in o.missing

\* aggregateModels reads data.daily_models[day] once per label
aggregateModelsThrows(o, labels) == labels # << >> /\ "daily_models" \in o.missing

computeStatsOutcome(o, v) ==
    IF v.endIndex < v.startIndex THEN Returned(computeStats(o.agg, v))
    ELSE IF \/ \E name \in SeriesFields : sumRangeThrows(o, name, v.startIndex, v.endIndex)
            \/ aggregateModelsThrows(o, v.labels)
         THEN Thrown
         ELSE Returned(computeStats(o.agg, v))

\* buildHourlyPoints reads data.hourly_daily?.[day] || []
buildChartSeriesOutcome(o, v, limit) == Returned(buildChartSeries(o.agg, v, limit))

----------------------------------------------------------------------------
(* Range switching: App.handleRangeChange, constants/animation.ts *)

RANGE_SWITCH_DELAY_MS == 500

\* handleRangeChange with the test of the active range alone
handleRangeChangeIgnoresSame(range, active, loading) == range = active

\* if (range === activeRange || rangeLoading) return
handleRangeChangeIgnores(range, active, loading) == range = active \/ loading

\* window.clearTimeout(id) when id is not null
clearTimeout(pending, ref) ==
    IF ref = NULL THEN pending ELSE {t \in pending : t.id # ref[1]}

----------------------------------------------------------------------------
(* The merge and the model totals on a heap of objects.                     *)
(* An object is a cell of the heap and is named by its address, its index   *)
(* in the heap.  A map object ({}, keyed by day or by model) is a function   *)
(* from its keys to addresses; a leaf is a breakdown, an array of 24 hours,  *)
(* a per-day entry, an array of spans or events, or the daily record.  A     *)
(* write goes to the cell whose address the code holds, so that a target     *)
(* that shared an object with an input would change the input.               *)

\* Op applied to the value, the value worked out once
With(value, Op(_)) == CHOOSE r \in {Op(x) : x \in {value}} : TRUE

Allocated(h, cell) == [heap |-> Append(h, cell), addr |-> Len(h) + 1]

\* the leaves of a map stored one by one, then the map object itself
RECURSIVE StoreLeaves(_, _, _, _)
StoreLeaves(h0, values, todo, refs0) ==
    With(<<h0, refs0>>, LAMBDA st :
        IF todo = {} THEN Allocated(st[1], st[2])
        ELSE With(CHOOSE x \in todo : TRUE, LAMBDA key :
                StoreLeaves(Append(st[1], values[key]), values, todo \ {key},
                            Put(st[2], key, Len(st[1]) + 1))))

\* data.daily_models: a map of days to maps of models to breakdowns
RECURSIVE StoreModels(_, _, _, _)
StoreModels(h0, dailyModels, todo, refs0) ==
    With(<<h0, refs0>>, LAMBDA st :
        IF todo = {} THEN Allocated(st[1], st[2])
        ELSE With(CHOOSE x \in todo : TRUE, LAMBDA day :
             With(StoreLeaves(st[1], dailyModels[day], DOMAIN dailyModels[day], EmptyMap),
                  LAMBDA stored :
                      StoreModels(stored.heap, dailyModels, todo \ {day},
                                  Put(st[2], day, stored.addr)))))

\* one aggregate laid out on the heap; the result names its members
StoreAggregate(h0, d) ==
    With(Allocated(h0, d.daily), LAMBDA daily :
    With(StoreModels(daily.heap, d.daily_models, DOMAIN d.daily_models, EmptyMap),
         LAMBDA models :
    With(StoreLeaves(models.heap, d.hourly_daily, DOMAIN d.hourly_daily, EmptyMap),
         LAMBDA hours :
    With(Allocated(hours.heap, d.session_spans), LAMBDA spans :
    With(Allocated(spans.heap, d.events), LAMBDA events :
    With(Allocated(events.heap, [range |-> d.range, pricing |-> d.pricing, meta |-> d.meta]),
         LAMBDA rest :
        [heap |-> rest.heap,
         root |-> [daily |-> daily.addr, daily_models |-> models.addr,
                   hourly_daily |-> hours.addr, session_spans |-> spans.addr,
                   events |-> events.addr, rest |-> rest.addr]]))))))

RECURSIVE StoreAll(_, _, _)
StoreAll(h0, ds, done) ==
    IF ds = << >> THEN [heap |-> h0, roots |-> done]
    ELSE With(StoreAggregate(h0, Head(ds)), LAMBDA stored :
            StoreAll(stored.heap, Tail(ds), Append(done, stored.root)))

\* the values behind a map of days to maps of models
ReadModels(h, a) ==
    [day \in DOMAIN h[a] |-> [m \in DOMAIN h[h[a][day]] |-> h[h[h[a][day]][m]]]]

\* the values behind a map of keys to leaves
ReadLeaves(h, a) == [key \in DOMAIN h[a] |-> h[h[a][key]]]

\* the aggregate a root names, as the code reads it
ReadAggregate(h, root) ==
    [range         |-> h[root.rest].range,
     daily         |-> h[root.daily],
     hourly_daily  |-> ReadLeaves(h, root.hourly_daily),
     daily_models  |-> ReadModels(h, root.daily_models),
     session_spans |-> h[root.session_spans],
     events        |-> h[root.events],
     pricing       |-> h[root.rest].pricing,
     meta          |-> h[root.rest].meta]

\* target[day][key] = rec: the input's breakdown object stored in the target
SharedBreakdown(h, source) == [heap |-> h, addr |-> source]

\* target[day][key] = { input_tokens: 0, ... }: a new object
FreshBreakdown(h, source) == Allocated(h, ZeroBreakdown)

\* the map at address out given the key, when it does not have it, by obj, a
\* heap and the address of the object to store
WithKey(h, out, key, obj) ==
    IF key \in DOMAIN h[out] THEN h
    ELSE [obj.heap EXCEPT ![out] = Put(@, key, obj.addr)]

\* the body of the inner loop of mergeDailyModels and of aggregateModels:
\* out is the address of the map written, source the address of rec
AddModelInPlace(h0, out, name, source) ==
    With(normalizeModelName(name), LAMBDA key :
    With(WithKey(h0, out, key, FreshBreakdown(h0, source)), LAMBDA h1 :
        [h1 EXCEPT ![h1[out][key]] = AddBreakdown(@, h1[source])]))

\* for (const [model, rec] of Object.entries(modelMap)): the entries are taken
\* before the loop
RECURSIVE AddModelsInPlace(_, _, _, _)
AddModelsInPlace(h0, out, entries, todo) ==
    With(h0, LAMBDA h :
        IF todo = {} THEN h
        ELSE With(CHOOSE x \in todo : TRUE, LAMBDA name :
                AddModelsInPlace(AddModelInPlace(h, out, name, entries[name]),
                                 out, entries, todo \ {name})))

RECURSIVE MergeDailyModelsDays(_, _, _, _)
MergeDailyModelsDays(h0, target, entries, todo) ==
    With(h0, LAMBDA h :
        IF todo = {} THEN h
        ELSE With(CHOOSE x \in todo : TRUE, LAMBDA day :
             With(WithKey(h, target, day, Allocated(h, EmptyMap)), LAMBDA h1 :
                MergeDailyModelsDays(
                    AddModelsInPlace(h1, h1[target][day], h1[entries[day]],
                                     DOMAIN h1[entries[day]]),
                    target, entries, todo \ {day}))))

\* mergeDailyModels(target, data) on the heap
mergeDailyModelsInPlace(h, target, root) ==
    MergeDailyModelsDays(h, target, h[root.daily_models], DOMAIN h[root.daily_models])

RECURSIVE MergeHourlyDays(_, _, _, _)
MergeHourlyDays(h0, target, entries, todo) ==
    With(h0, LAMBDA h :
        IF todo = {} THEN h
        ELSE With(CHOOSE x \in todo : TRUE, LAMBDA day :
             With(WithKey(h, target, day, Allocated(h, ZeroHours)), LAMBDA h1 :
                MergeHourlyDays(
                    [h1 EXCEPT ![h1[target][day]] = AddHours(@, h1[entries[day]])],
                    target, entries, todo \ {day}))))

\* mergeHourlyDaily(target, data) on the heap
mergeHourlyDailyInPlace(h, target, root) ==
    MergeHourlyDays(h, target, h[root.hourly_daily], DOMAIN h[root.hourly_daily])

\* dayMap[day].total += data.daily.total[i] || 0, and the four other series
AddDay(entry, d, i) ==
    [total     |-> entry.total + OrZero(d.total, i),
     input     |-> entry.input + OrZero(d.input, i),
     output    |-> entry.output + OrZero(d.output, i),
     reasoning |-> entry.reasoning + OrZero(d.reasoning, i),
     cached    |-> entry.cached + OrZero(d.cached, i)]

RECURSIVE MergeDayMapInPlaceFrom(_, _, _, _)
MergeDayMapInPlaceFrom(h0, target, daily, i) ==
    With(h0, LAMBDA h :
        IF i > Len(h[daily].labels) THEN h
        ELSE With(h[daily].labels[i], LAMBDA day :
             With(WithKey(h, target, day, Allocated(h, ZeroDay)), LAMBDA h1 :
                MergeDayMapInPlaceFrom(
                    [h1 EXCEPT ![h1[target][day]] = AddDay(@, h1[daily], i)],
                    target, daily, i + 1))))

\* mergeDayMap(dayMap, data) on the heap
mergeDayMapInPlace(h, target, root) == MergeDayMapInPlaceFrom(h, target, root.daily, 1)

\* the set of keys of a map as a sequence
RECURSIVE KeysOf(_)
KeysOf(keys) ==
    IF keys = {} THEN << >>
    ELSE With(CHOOSE x \in keys : TRUE, LAMBDA key : <<key>> \o KeysOf(keys \ {key}))

\* the body of the loop of mergeReportData over valid
MergeOneInPlace(h0, acc, root) ==
    With(mergeDayMapInPlace(h0, acc.dayMap, root), LAMBDA h1 :
    With(mergeDailyModelsInPlace(h1, acc.dailyModels, root), LAMBDA h2 :
    With(mergeHourlyDailyInPlace(h2, acc.hourlyDaily, root), LAMBDA h3 :
        [h3 EXCEPT ![acc.sessionSpans] = PushAll(@, h3[root.session_spans]),
                   ![acc.events] = PushAll(@, h3[root.events])])))

\* the loop of mergeReportData over valid: acc names the five accumulators
RECURSIVE MergeAllInPlace(_, _, _)
MergeAllInPlace(h0, acc, valid) ==
    IF valid = << >> THEN h0
    ELSE With(MergeOneInPlace(h0, acc, Head(valid)), LAMBDA h :
            MergeAllInPlace(h, acc, Tail(valid)))

\* the daily record built from the dayMap of the heap
DailyOfDayMap(h, dayMap, labels) ==
    [labels    |-> labels,
     total     |-> [i \in DOMAIN labels |-> h[h[dayMap][labels[i]]].total],
     input     |-> [i \in DOMAIN labels |-> h[h[dayMap][labels[i]]].input],
     output    |-> [i \in DOMAIN labels |-> h[h[dayMap][labels[i]]].output],
     reasoning |-> [i \in DOMAIN labels |-> h[h[dayMap][labels[i]]].reasoning],
     cached    |-> [i \in DOMAIN labels |-> h[h[dayMap][labels[i]]].cached]]

\* mergeReportData on the heap: the heap it leaves and the members of the
\* aggregate it returns, or null
mergeReportDataInPlace(h0, inputs) ==
    With(h0, LAMBDA h :
    With(SelectSeq(inputs, LAMBDA root : Len(h[root.daily].labels) > 0), LAMBDA valid :
        IF valid = << >> THEN [heap |-> h, value |-> NULL]
        ELSE With([dayMap |-> Len(h) + 1, dailyModels |-> Len(h) + 2,
                   hourlyDaily |-> Len(h) + 3, sessionSpans |-> Len(h) + 4,
                   events |-> Len(h) + 5], LAMBDA acc :
             With(MergeAllInPlace(h \o <<EmptyMap, EmptyMap, EmptyMap, << >>, << >>>>,
                                  acc, valid), LAMBDA h1 :
             With(SortAsc(KeysOf(DOMAIN h1[acc.dayMap])), LAMBDA labels :
                [heap  |-> Append(h1, DailyOfDayMap(h1, acc.dayMap, labels)),
                 value |-> Some([daily |-> Len(h1) + 1,
                                 daily_models |-> acc.dailyModels,
                                 hourly_daily |-> acc.hourlyDaily,
                                 session_spans |-> acc.sessionSpans,
                                 events |-> acc.events])])))))

\* the outer loop of aggregateModels
RECURSIVE AggregateModelsDays(_, _, _, _)
AggregateModelsDays(h0, out, source, labels) ==
    With(h0, LAMBDA h :
        IF labels = << >> THEN h
        ELSE AggregateModelsDays(
                 IF Head(labels) \in DOMAIN h[source]
                 THEN AddModelsInPlace(h, out, h[h[source][Head(labels)]],
                                       DOMAIN h[h[source][Head(labels)]])
                 ELSE h,
                 out, source, Tail(labels)))

\* aggregateModels(data, labels) on the heap: the heap it leaves and the
\* address of out
aggregateModelsInPlace(h, root, labels) ==
    With(Allocated(h, EmptyMap), LAMBDA out :
        [heap |-> AggregateModelsDays(out.heap, out.addr, root.daily_models, labels),
         addr |-> out.addr])

----------------------------------------------------------------------------
(* The variables a run does not use keep these values *)

IdleWalk == walkAliases = << >> /\ walkStart = << >> /\ walkCursor = << >> /\ walkSeen = {} /\ walkSteps = 0

IdleAux ==
    /\ IdleWalk
    /\ normalizedName = << >>
    /\ activeRange = "ALL"
    /\ tzAhead = FALSE
    /\ maxPoints = 0
    /\ chart = << >>
    /\ parsed = << >>
    /\ imported = << >>

IdleLoose == loose = << >> /\ outcomes = << >>

IdleFlow ==
    /\ current = << >> /\ files = << >> /\ fileIndex = 0 /\ accepted = << >>
    /\ invalid = 0 /\ result = << >> /\ importing = FALSE /\ importStatus = ""

IdleHeap == heap = << >> /\ roots = << >> /\ results = << >>

IdleSwitch ==
    /\ rangeLoading = FALSE /\ timerRef = << >> /\ timers = {} /\ mounted = TRUE
    /\ requests = << >>

IdleRest == regrouped = << >> /\ IdleHeap /\ IdleSwitch

IdleExtra == IdleLoose /\ IdleFlow /\ IdleRest

IdleMerge == datasets = << >> /\ merged = << >> /\ swapped = << >>

IdleView == data = << >> /\ reqStart = 0 /\ reqEnd = 0 /\ view = << >> /\ stats = << >>

IdlePricing ==
    model = << >> /\ book = << >> /\ rec = << >> /\ priced = << >> /\ cost = << >>

IdleCore == IdleMerge /\ IdleView /\ IdlePricing

----------------------------------------------------------------------------
(* Inputs *)

Days == 1..MaxDay

\* the date-only ISO string of day d
DateISO(d) == d * TimeSlots

\* the ISO timestamp of day d at time slot t, 0 < t < TimeSlots
TimeISO(d, t) == d * TimeSlots + t

Labels == {DateISO(d) : d \in Days}

\* label sequences of every order, with and without repeated days
LabelSeqs == UNION {[1..n -> Labels] : n \in 0..MaxLen}

IsAscending(labels) == \A i, j \in DOMAIN labels : i < j => labels[i] < labels[j]

\* prices of the price tables, in tenths of a USD per million tokens
EntryOf(key) ==
    CASE key = GPT5  -> [input |-> 20, cached_input |-> Some(5), output |-> 80]
      [] key = GPT51 -> [input |-> 12, cached_input |-> NULL, output |-> 100]
      [] key = GPT52 -> [input |-> 17, cached_input |-> Some(0), output |-> 140]
      [] key = <<"o3">> -> [input |-> 0, cached_input |-> Some(0), output |-> 0]
      [] key = <<"o3", ":", "ft">> -> [input |-> 30, cached_input |-> NULL, output |-> 90]
      [] OTHER -> [input |-> 2, cached_input |-> Some(1), output |-> 20]

PriceKeys == <<GPT5, <<"gpt-5", "-", "mini">>, GPT51, GPT52, <<"o3">>, <<"o3", ":", "ft">>>>

RECURSIVE SelectSeq2(_, _)
SelectSeq2(s, keep) ==
    IF s = << >> THEN << >>
    ELSE IF Head(s) \in keep THEN <<Head(s)>> \o SelectSeq2(Tail(s), keep)
    ELSE SelectSeq2(Tail(s), keep)

\* a price table holding the keys of keep, inserted in the order of order
PriceTable(order, keep) ==
    [keys |-> SelectSeq2(order, keep), rec |-> [k \in keep |-> EntryOf(k)]]

PriceTables == {PriceTable(o, keep) : o \in {PriceKeys, Reverse(PriceKeys)},
                                      keep \in SUBSET Range(PriceKeys)}

AliasTables ==
    { EmptyMap,
      (<<"alias">> :> <<"o3">>) @@ (<<"o3">> :> GPT51) @@ (<<"x">> :> <<"alias">>),
      (<<"a">> :> <<"b">>) @@ (<<"b">> :> <<"a">>) @@ (<<"c">> :> <<"c">>)
        @@ (<<"o3", ":", "ft">> :> <<"a", ":", "z">>) @@ (GPT53 :> << >>) }

PricingBooks == {NULL} \cup {Some([prices |-> p, aliases |-> a]) :
                                p \in PriceTables, a \in AliasTables}

ModelNames ==
    { << >>, GPT5, GPT51, GPT52, GPT53,
      <<"gpt-5", "-", "mini">>, <<"gpt-5", "-", "mini", "-", "high">>,
      <<"gpt-5", ".1", "-", "mini", " ", "(", "preview", ")">>,
      <<"gpt-5", ".3", "-", "codex">>, <<"my", "-", "gpt-5", ".2">>,
      <<"gpt-5", "o">>, <<"o3">>, <<"o3", ":", "ft">>, <<"o3", "-", "pro", ":", "ft">>,
      <<" ", "o3", " ", "FW(", "x", "FW)", ":", " ", "ft", " ">>,
      <<"alias">>, <<"x">>, <<"a">>, <<"c", ":", "ft">>, <<"other">> }

Breakdowns ==
    { ZeroBreakdown,
      [input_tokens |-> 1000000, cached_input_tokens |-> 200000, output_tokens |-> 500000,
       reasoning_output_tokens |-> 0, total_tokens |-> 1500000],
      [input_tokens |-> 1000000, cached_input_tokens |-> 200000, output_tokens |-> 500000,
       reasoning_output_tokens |-> 0, total_tokens |-> 7],
      [input_tokens |-> 10, cached_input_tokens |-> 30, output_tokens |-> 5,
       reasoning_output_tokens |-> 7, total_tokens |-> 52],
      [input_tokens |-> 0, cached_input_tokens |-> 0, output_tokens |-> 3,
       reasoning_output_tokens |-> 4, total_tokens |-> 7] }

----------------------------------------------------------------------------
(* Aggregates given to mergeReportData *)

Variants == 1..2

\* the per-day values of variant v at index i (0-based)
DayValue(v, i) == [total     |-> 100 * v + 10 * i,
                   input     |-> 60 * v + i,
                   output    |-> 30 * v + 2 * i,
                   reasoning |-> 10 * v,
                   cached    |-> 20 * v + 3 * i]

DailyOf(labels, value) ==
    [labels    |-> labels,
     total     |-> [i \in DOMAIN labels |-> value[i].total],
     input     |-> [i \in DOMAIN labels |-> value[i].input],
     output    |-> [i \in DOMAIN labels |-> value[i].output],
     reasoning |-> [i \in DOMAIN labels |-> value[i].reasoning],
     cached    |-> [i \in DOMAIN labels |-> value[i].cached]]

RangeOf(labels) ==
    IF labels = << >> THEN [start |-> 0, end |-> 0, days |-> 0]
    ELSE [start |-> labels[1], end |-> labels[Len(labels)], days |-> Len(labels)]

SomeHours == [h \in 1..HOURS |-> IF h = 1 THEN 5 ELSE IF h = HOURS THEN 7 ELSE 0]

BreakdownA == [input_tokens |-> 1000, cached_input_tokens |-> 200, output_tokens |-> 500,
               reasoning_output_tokens |-> 40, total_tokens |-> 1540]

BreakdownB == [input_tokens |-> 10, cached_input_tokens |-> 30, output_tokens |-> 5,
               reasoning_output_tokens |-> 7, total_tokens |-> 22]

\* two spellings of one model and a model of its own
ModelsOfDay == (GPT5 :> BreakdownA) @@ (<<"gpt-5", " ", "(", "x", ")">> :> BreakdownB)
               @@ (<<"o3">> :> BreakdownB)

BookA == [prices  |-> PriceTable(PriceKeys, {GPT5, GPT51}),
          aliases |-> (<<"o3">> :> GPT51)]

\* an aggregate with the series only: no models, hours, spans, events, pricing
BareData(labels, value) ==
    [range |-> RangeOf(labels), daily |-> DailyOf(labels, value),
     hourly_daily |-> EmptyMap, daily_models |-> EmptyMap,
     session_spans |-> << >>, events |-> << >>, pricing |-> NULL, meta |-> NULL]

\* an aggregate with models, hours, a span and an event on its days
FullData(labels, value) ==
    [range |-> RangeOf(labels), daily |-> DailyOf(labels, value),
     hourly_daily  |-> [day \in Range(labels) |-> SomeHours],
     daily_models  |-> [day \in Range(labels) |-> ModelsOfDay],
     session_spans |-> IF labels = << >> THEN << >>
                       ELSE <<[start |-> labels[1] + 1, end |-> labels[Len(labels)] + 1]>>,
     events        |-> IF labels = << >> THEN << >>
                       ELSE <<[ts |-> labels[1] + 1, day |-> labels[1], total |-> 1]>>,
     pricing       |-> Some(BookA),
     meta          |-> Some("meta")]

MergeData(labels, v) ==
    LET value == [i \in DOMAIN labels |-> DayValue(v, i - 1)]
    IN  IF v = 1 THEN BareData(labels, value) ELSE FullData(labels, value)

\* no labels, but series values, hours, models, a span, an event, pricing and meta
GhostData ==
    [FullData(<<DateISO(1)>>, <<DayValue(2, 0)>>) EXCEPT !.daily.labels = << >>]

MergeDatasets == {MergeData(labels, v) : labels \in LabelSeqs, v \in Variants} \cup {GhostData}

----------------------------------------------------------------------------
(* Merge run: mergeReportData on up to two aggregates, in both orders *)

InitMerge ==
    /\ IdleExtra
    /\ datasets \in UNION {[1..n -> MergeDatasets] : n \in 0..2}
    /\ merged = NULL
    /\ swapped = NULL
    /\ pc = "start"
    /\ IdleAux
    /\ data = NULL /\ reqStart = 0 /\ reqEnd = 0 /\ view = NULL /\ stats = NULL
    /\ model = << >> /\ book = NULL /\ rec = ZeroBreakdown /\ priced = NULL /\ cost = NULL

MergeForward ==
    /\ pc = "start"
    /\ merged' = mergeReportData(datasets)
    /\ pc' = "merged"
    /\ UNCHANGED extraVars
    /\ UNCHANGED auxVars
    /\ UNCHANGED <<datasets, swapped, data, reqStart, reqEnd, view, stats,
                   model, book, rec, priced, cost>>

MergeReversed ==
    /\ pc = "merged"
    /\ swapped' = mergeReportData(Reverse(datasets))
    /\ pc' = "done"
    /\ UNCHANGED extraVars
    /\ UNCHANGED auxVars
    /\ UNCHANGED <<datasets, merged, data, reqStart, reqEnd, view, stats,
                   model, book, rec, priced, cost>>

NextMerge == MergeForward \/ MergeReversed

SpecMerge == InitMerge /\ [][NextMerge]_vars

----------------------------------------------------------------------------
(* Aggregates and requests given to calcRangedView and computeStats *)

\* every day, ascending
AllLabels == [i \in 1..MaxDay |-> DateISO(i)]

\* label sequences of every order up to MaxLen + 1 days, with fixed values
ViewLabelSeqs == UNION {[1..n -> Labels] : n \in 0..(MaxLen + 1)}

LabelFamily ==
    {BareData(labels, [i \in DOMAIN labels |-> DayValue(1, i - 1)]) : labels \in ViewLabelSeqs}

\* ascending duplicate-free labels with every choice of per-day values
DayRecs == { ZeroDay,
             [total |-> 100, input |-> 60, output |-> 30, reasoning |-> 10, cached |-> 20],
             [total |-> 50, input |-> 0, output |-> 45, reasoning |-> 5, cached |-> 0] }

AscendingSeqs == {labels \in UNION {[1..n -> Labels] : n \in 1..MaxDay} : IsAscending(labels)}

SeriesFamily ==
    UNION {{BareData(labels, value) : value \in [DOMAIN labels -> DayRecs]} :
           labels \in AscendingSeqs}

\* ISO strings of the days of the labels, date-only and with a time part
SpanPoints == DateISO(1)..TimeISO(MaxDay, TimeSlots - 1)

Spans == {[start |-> a, end |-> b] : a \in SpanPoints, b \in SpanPoints}

FixedSpan == [start |-> DateISO(1), end |-> DateISO(MaxDay)]

SpanLists == {<< >>} \cup {<<sp>> : sp \in Spans} \cup {<<sp, sp>> : sp \in Spans}
             \cup {<<sp, FixedSpan>> : sp \in Spans}

SpanFamily ==
    {[BareData(AllLabels, [i \in 1..MaxDay |-> DayValue(1, i - 1)])
        EXCEPT !.session_spans = spans] : spans \in SpanLists}

\* per day: no entry, two spellings of gpt-5 and o3, an unpriced model, o3 alone
DayModelMaps == { ModelsOfDay, (<<"other">> :> BreakdownA), (<<"o3">> :> BreakdownB) }

ModelTables ==
    UNION {[days -> DayModelMaps] : days \in SUBSET Labels}

\* o3 priced at zero, nothing else priced
BookZero == [prices |-> PriceTable(PriceKeys, {<<"o3">>}), aliases |-> EmptyMap]

\* no model of the day maps priced
BookNone == [prices |-> PriceTable(PriceKeys, {GPT52}), aliases |-> EmptyMap]

BookAll == [prices  |-> PriceTable(PriceKeys, {GPT5, GPT51, <<"o3">>}),
            aliases |-> (<<"other">> :> GPT5)]

ViewBooks == {NULL, Some(BookA), Some(BookZero), Some(BookNone), Some(BookAll)}

ModelFamily ==
    {[BareData(AllLabels, [i \in 1..MaxDay |-> DayValue(1, i - 1)])
        EXCEPT !.daily_models = table, !.pricing = b] :
     table \in ModelTables, b \in ViewBooks}

\* no labels, but series values, hours, models, a span, an event and a pricing book
EmptyLabelFamily ==
    {[FullData(AllLabels, [i \in 1..MaxDay |-> DayValue(1, i - 1)])
        EXCEPT !.daily.labels = << >>, !.pricing = b] : b \in ViewBooks}

ViewDatasets ==
    LabelFamily \cup SeriesFamily \cup SpanFamily \cup ModelFamily \cup EmptyLabelFamily

\* requested dates: every day, the day before the first and the day after the last
Requests == {DateISO(d) : d \in 0..(MaxDay + 1)}

----------------------------------------------------------------------------
(* View run: calcRangedView on an aggregate and a requested pair, then      *)
(* computeStats on the aggregate and the view                              *)

InitView ==
    /\ IdleExtra
    /\ data \in ViewDatasets
    /\ reqStart \in Requests
    /\ reqEnd \in Requests
    /\ view = NULL
    /\ stats = NULL
    /\ pc = "start"
    /\ IdleAux
    /\ datasets = << >> /\ merged = NULL /\ swapped = NULL
    /\ model = << >> /\ book = NULL /\ rec = ZeroBreakdown /\ priced = NULL /\ cost = NULL

CalcRangedView ==
    /\ pc = "start"
    /\ view' = calcRangedView(data, reqStart, reqEnd)
    /\ pc' = "viewed"
    /\ UNCHANGED extraVars
    /\ UNCHANGED auxVars
    /\ UNCHANGED <<datasets, merged, swapped, data, reqStart, reqEnd, stats,
                   model, book, rec, priced, cost>>

ComputeStats ==
    /\ pc = "viewed"
    /\ stats' = computeStats(data, view)
    /\ pc' = "done"
    /\ UNCHANGED extraVars
    /\ UNCHANGED auxVars
    /\ UNCHANGED <<datasets, merged, swapped, data, reqStart, reqEnd, view,
                   model, book, rec, priced, cost>>

NextView == CalcRangedView \/ ComputeStats

SpecView == InitView /\ [][NextView]_vars

----------------------------------------------------------------------------
(* Pricing run: resolvePricing on a name and a book, then costUSD on a      *)
(* breakdown and the resolved entry                                        *)

InitPricing ==
    /\ IdleExtra
    /\ model \in ModelNames
    /\ book \in PricingBooks
    /\ rec \in Breakdowns
    /\ priced = NULL
    /\ cost = NULL
    /\ pc = "start"
    /\ IdleAux
    /\ datasets = << >> /\ merged = NULL /\ swapped = NULL
    /\ data = NULL /\ reqStart = 0 /\ reqEnd = 0 /\ view = NULL /\ stats = NULL

ResolvePricing ==
    /\ pc = "start"
    /\ priced' = resolvePricing(model, book)
    /\ pc' = "resolved"
    /\ UNCHANGED extraVars
    /\ UNCHANGED auxVars
    /\ UNCHANGED <<datasets, merged, swapped, data, reqStart, reqEnd, view, stats,
                   model, book, rec, cost>>

CostUSD ==
    /\ pc = "resolved"
    /\ cost' = costUSD(rec, priced)
    /\ pc' = "done"
    /\ UNCHANGED extraVars
    /\ UNCHANGED auxVars
    /\ UNCHANGED <<datasets, merged, swapped, data, reqStart, reqEnd, view, stats,
                   model, book, rec, priced>>

NextPricing == ResolvePricing \/ CostUSD

SpecPricing == InitPricing /\ [][NextPricing]_vars

----------------------------------------------------------------------------
(* The alias walk of resolvePricing, one loop iteration per step *)

WalkNames == {<<"a">>, <<"b">>, <<"c">>, <<"d">>}

WalkKeys == {<<"a">>, <<"b">>, <<"c">>}

\* a target of << >> is the empty string, which the loop condition reads as false
WalkTargets == WalkNames \cup {<< >>}

AliasWalkTables == UNION {[keys -> WalkTargets] : keys \in SUBSET WalkKeys}

InitAlias ==
    /\ IdleExtra
    /\ walkAliases \in AliasWalkTables
    /\ walkStart \in WalkNames
    /\ walkCursor = walkStart
    /\ walkSeen = {}
    /\ walkSteps = 0
    /\ pc = "walking"
    /\ IdleCore
    /\ normalizedName = << >>
    /\ activeRange = "ALL"
    /\ tzAhead = FALSE
    /\ maxPoints = 0
    /\ chart = << >>
    /\ parsed = << >>
    /\ imported = << >>

\* one iteration of the loop body: seen.add(cursor); cursor = aliases[cursor]
AliasReplace ==
    /\ pc = "walking"
    /\ AliasContinues(walkAliases, walkCursor, walkSeen)
    /\ walkSeen' = walkSeen \cup {walkCursor}
    /\ walkCursor' = walkAliases[walkCursor]
    /\ walkSteps' = walkSteps + 1
    /\ UNCHANGED extraVars
    /\ UNCHANGED <<coreVars, walkAliases, walkStart, normalizedName, activeRange,
                   tzAhead, maxPoints, chart, parsed, imported, pc>>

\* the loop condition fails: return cursor
AliasReturn ==
    /\ pc = "walking"
    /\ ~AliasContinues(walkAliases, walkCursor, walkSeen)
    /\ pc' = "done"
    /\ UNCHANGED extraVars
    /\ UNCHANGED <<coreVars, auxVars>>

NextAlias == AliasReplace \/ AliasReturn

SpecAlias == InitAlias /\ [][NextAlias]_vars

----------------------------------------------------------------------------
(* normalizeModelName applied to every short name *)

MaxNameLen == 4

NameAtoms == {"a", " ", "(", ")", "FW)", ":"}

\* every name of at most MaxNameLen atoms, and the model names of the pricing runs
NamePool == UNION {[1..n -> NameAtoms] : n \in 0..MaxNameLen} \cup ModelNames

InitNames ==
    /\ IdleExtra
    /\ model \in NamePool
    /\ normalizedName = << >>
    /\ pc = "start"
    /\ IdleMerge
    /\ IdleView
    /\ book = << >> /\ rec = << >> /\ priced = << >> /\ cost = << >>
    /\ IdleWalk
    /\ activeRange = "ALL"
    /\ tzAhead = FALSE
    /\ maxPoints = 0
    /\ chart = << >>
    /\ parsed = << >>
    /\ imported = << >>

NormalizeModelName ==
    /\ pc = "start"
    /\ normalizedName' = normalizeModelName(model)
    /\ pc' = "done"
    /\ UNCHANGED extraVars
    /\ UNCHANGED <<coreVars, walkVars, activeRange, tzAhead, maxPoints, chart, parsed, imported>>

NextNames == NormalizeModelName

SpecNames == InitNames /\ [][NextNames]_vars

----------------------------------------------------------------------------
(* App: the range window of the active preset, the view and the statistics *)

\* ascending labels with a range that may or may not be the labels' extent
AppDatasets ==
    {[BareData(labels, [i \in DOMAIN labels |-> DayValue(1, i - 1)])
        EXCEPT !.range = [start |-> a, end |-> b, days |-> Len(labels)]] :
     labels \in AscendingSeqs, a \in Requests, b \in Requests}

InitApp ==
    /\ IdleExtra
    /\ data \in AppDatasets
    /\ activeRange \in TimeRanges
    /\ tzAhead \in BOOLEAN
    /\ reqStart = 0
    /\ reqEnd = 0
    /\ view = NULL
    /\ stats = NULL
    /\ pc = "preset"
    /\ IdleMerge
    /\ IdlePricing
    /\ IdleWalk
    /\ normalizedName = << >>
    /\ maxPoints = 0
    /\ chart = << >>
    /\ parsed = << >>
    /\ imported = << >>

\* rangeWindow = calcRangeByPreset(activeRange, data.range.start, data.range.end)
CalcRangeByPreset ==
    /\ pc = "preset"
    /\ LET rangeWindow == calcRangeByPreset(activeRange, data.range.start,
                                            data.range.end, tzAhead)
       IN  /\ reqStart' = rangeWindow.start
           /\ reqEnd' = rangeWindow.end
    /\ pc' = "start"
    /\ UNCHANGED extraVars
    /\ UNCHANGED <<datasets, merged, swapped, data, view, stats,
                   model, book, rec, priced, cost, auxVars>>

NextApp == CalcRangeByPreset \/ CalcRangedView \/ ComputeStats

SpecApp == InitApp /\ [][NextApp]_vars

----------------------------------------------------------------------------
(* Chart run: calcRangedView, then buildChartSeries on the view *)

\* an hour array of 24 counts and one of 2 counts
ShortHours == <<3, 4>>

HourArrays == {SomeHours, ShortHours}

\* every choice of days with hours, each with either array
HourlyMaps == UNION {[days -> HourArrays] : days \in SUBSET Labels}

\* labels out of order with a repeated day
MixedLabels == <<DateISO(2), DateISO(1), DateISO(1)>>

ChartDatasets ==
    {[BareData(labels, [i \in DOMAIN labels |-> DayValue(1, i - 1)])
        EXCEPT !.hourly_daily = hourly] :
     labels \in {AllLabels, MixedLabels}, hourly \in HourlyMaps}
    \cup {[BareData(<< >>, << >>) EXCEPT !.hourly_daily = [day \in Labels |-> SomeHours]]}

\* limits below, at and above 24 and 48 points, and the default
MaxPointsChoices == {1, 5, 7, 23, 24, 47, 50, DefaultMaxPoints}

InitChart ==
    /\ IdleExtra
    /\ data \in ChartDatasets
    /\ reqStart \in Requests
    /\ reqEnd \in Requests
    /\ maxPoints \in MaxPointsChoices
    /\ view = NULL
    /\ stats = NULL
    /\ chart = << >>
    /\ pc = "start"
    /\ IdleMerge
    /\ IdlePricing
    /\ IdleWalk
    /\ normalizedName = << >>
    /\ activeRange = "ALL"
    /\ tzAhead = FALSE
    /\ parsed = << >>
    /\ imported = << >>

BuildChartSeries ==
    /\ pc = "viewed"
    /\ chart' = buildChartSeries(data, view, maxPoints)
    /\ pc' = "charted"
    /\ UNCHANGED extraVars
    /\ UNCHANGED <<coreVars, walkVars, normalizedName, activeRange, tzAhead, maxPoints,
                   parsed, imported>>

NextChart == CalcRangedView \/ BuildChartSeries

SpecChart == InitChart /\ [][NextChart]_vars

----------------------------------------------------------------------------
(* Import run: normalizeImportedData on a parsed JSON value *)

\* the member name with value v, no member when v is undefined
Member(name, v) == IF v = JUndefined THEN {} ELSE {<<name, v>>}

Primitives == {JNull, JFalse, JTrue, JZero, JNumber, JEmpty, JString, JArray}

SeriesChoices == {JUndefined, JArray, JString, JNull}

DailyObjects ==
    {JObject(Member("labels", l) \cup Member("total", t)) :
        l \in SeriesChoices, t \in SeriesChoices}

DailyChoices == DailyObjects \cup {JUndefined, JNull, JZero, JTrue, JString, JArray}

RangeObject == JObject({<<"start", JString>>, <<"end", JString>>, <<"days", JNumber>>})

RangeChoices == {JUndefined, JNull, JFalse, JZero, JEmpty, JString, RangeObject}

\* objects with or without daily and range
Candidates ==
    {JObject(Member("daily", d) \cup Member("range", r)) :
        d \in DailyChoices, r \in RangeChoices}

\* the payload written by handleExport
ExportPayload(d) ==
    JObject({<<"version", JNumber>>, <<"exported_at", JString>>, <<"data", d>>})

ValidAggregate ==
    JObject({<<"daily", JObject({<<"labels", JArray>>, <<"total", JArray>>})>>,
             <<"range", RangeObject>>})

\* an aggregate that also has a member named data
WithData(d) ==
    JObject({<<"daily", JObject({<<"labels", JArray>>, <<"total", JArray>>})>>,
             <<"range", RangeObject>>, <<"data", d>>})

ParsedValues ==
    Primitives \cup Candidates
    \cup {ExportPayload(d) : d \in Candidates \cup Primitives}
    \cup {WithData(d) : d \in Primitives \cup {ValidAggregate, JObject({})}}

InitImport ==
    /\ IdleExtra
    /\ parsed \in ParsedValues
    /\ imported = << >>
    /\ pc = "start"
    /\ IdleCore
    /\ IdleWalk
    /\ normalizedName = << >>
    /\ activeRange = "ALL"
    /\ tzAhead = FALSE
    /\ maxPoints = 0
    /\ chart = << >>

NormalizeImportedData ==
    /\ pc = "start"
    /\ imported' = normalizeImportedData(parsed)
    /\ pc' = "done"
    /\ UNCHANGED extraVars
    /\ UNCHANGED <<coreVars, walkVars, normalizedName, activeRange, tzAhead, maxPoints,
                   chart, parsed>>

NextImport == NormalizeImportedData

SpecImport == InitImport /\ [][NextImport]_vars

----------------------------------------------------------------------------
(* Claims about costUSD and resolvePricing, under SpecPricing *)

ExampleBreakdown ==
    [input_tokens |-> 1000000, cached_input_tokens |-> 200000, output_tokens |-> 500000,
     reasoning_output_tokens |-> 0, total_tokens |-> 1500000]

\* C9: costUSD is null exactly when the pricing entry is absent; otherwise it
\* is max(0, input - cached) * input_rate + cached * cachedRate
\* + (output + reasoning) * output_rate (per million tokens), cachedRate being
\* the entry's cached_input when present, a present 0 included, and the input
\* rate otherwise; total_tokens does not affect the result.
C9_CostFormula ==
    pc = "done" =>
        /\ (cost = NULL) <=> (priced = NULL)
        /\ priced # NULL =>
             LET e          == priced[1]
                 diff       == rec.input_tokens - rec.cached_input_tokens
                 billable   == IF diff > 0 THEN diff ELSE 0
                 cachedRate == IF Len(e.cached_input) = 1 THEN e.cached_input[1] ELSE e.input
             IN  cost = <<billable * e.input + rec.cached_input_tokens * cachedRate
                          + (rec.output_tokens + rec.reasoning_output_tokens) * e.output>>
        /\ \A t \in {0, rec.total_tokens + 1} :
             costUSD([rec EXCEPT !.total_tokens = t], priced) = cost

\* the example of the claim: 5.7 USD, in units of 1/10000000 USD
C9_Witness ==
    /\ pc = "done"
    /\ rec = ExampleBreakdown
    /\ priced = <<[input |-> 20, cached_input |-> <<5>>, output |-> 80]>>
    /\ cost = <<57000000>>

\* C10: resolvePricing returns the first hit of the chain (1) the de-aliased
\* normalized name, (2) the de-aliased base name, (3) a price key K with the
\* base name starting with K followed by "-", (4) the gpt-5 ladder, and null
\* when no step matches.
C10_FirstHitWins ==
    pc # "start" =>
        LET b       == IF book = NULL THEN EmptyBook ELSE book[1]
            keys    == DOMAIN b.prices.rec
            full    == deAlias(b.aliases, normalizeModelName(model))
            base    == deAlias(b.aliases, SplitHead(full))
            byKey   == {k \in keys : StartsWith(base, k \o <<"-">>)}
            inGpt5  == \/ Includes(base, GPT51) \/ Includes(base, GPT52)
                       \/ Includes(base, GPT53) \/ StartsWith(base, GPT5)
        IN  IF full \in keys THEN priced = <<b.prices.rec[full]>>
            ELSE IF base \in keys THEN priced = <<b.prices.rec[base]>>
            ELSE IF byKey # {} THEN \E k \in byKey : priced = <<b.prices.rec[k]>>
            ELSE IF inGpt5
                 THEN \/ priced = NULL
                      \/ \E k \in {GPT5, GPT51, GPT52} \cap keys : priced = <<b.prices.rec[k]>>
            ELSE priced = NULL

\* the full name "o3:ft" and its base name "o3" are both priced: the full name wins
C10_Witness ==
    /\ pc = "resolved"
    /\ model = <<"o3", ":", "ft">>
    /\ book # NULL
    /\ book[1].aliases = EmptyMap
    /\ {<<"o3">>, <<"o3", ":", "ft">>} \subseteq DOMAIN book[1].prices.rec
    /\ priced = <<EntryOf(<<"o3", ":", "ft">>)>>

----------------------------------------------------------------------------
(* Claims about mergeReportData, under SpecMerge *)

SeriesNames == {"total", "input", "output", "reasoning", "cached"}

\* the occurrences of day in the inputs: <<k, j>> when input k has it at place j
Occurrences(ds, day) ==
    UNION {{<<k, j>> : j \in {i \in DOMAIN ds[k].daily.labels : ds[k].daily.labels[i] = day}} :
           k \in DOMAIN ds}

\* the sum over all inputs of the input's values of series f for day
DaySum(ds, f, day) ==
    LET occ == Occurrences(ds, day)
    IN  SumOver(occ, [kj \in occ |-> ds[kj[1]].daily[f][kj[2]]])

AllDays(ds) == UNION {Range(ds[k].daily.labels) : k \in DOMAIN ds}

\* C1: over inputs of which one has labels, the merged labels are the
\* ascending duplicate-free sequence of every day of any input, each of the
\* five series is as long as the labels, and its value at day d is the sum of
\* the inputs' values for d; a single dataset keeps its per-day values.
C1_MergeSumsByDay ==
    (pc # "start" /\ AllDays(datasets) # {}) =>
        /\ merged # NULL
        /\ LET labels == merged[1].daily.labels
           IN  /\ Range(labels) = AllDays(datasets)
               /\ IsAscending(labels)
               /\ \A f \in SeriesNames :
                    /\ Len(merged[1].daily[f]) = Len(labels)
                    /\ \A i \in DOMAIN labels :
                         merged[1].daily[f][i] = DaySum(datasets, f, labels[i])
               /\ (Len(datasets) = 1 /\ IsAscending(datasets[1].daily.labels))
                    => merged[1].daily = datasets[1].daily

\* two inputs sharing a day and each holding a day the other lacks
C1_Witness ==
    /\ pc = "merged"
    /\ Len(datasets) = 2
    /\ Range(datasets[1].daily.labels) \cap Range(datasets[2].daily.labels) # {}
    /\ Range(datasets[1].daily.labels) \ Range(datasets[2].daily.labels) # {}
    /\ Range(datasets[2].daily.labels) \ Range(datasets[1].daily.labels) # {}
    /\ Len(merged[1].daily.labels) = 3
    /\ \E i \in 1..3 : merged[1].daily.total[i] = 300

\* C2: mergeReportData([A, B]) and mergeReportData([B, A]) are null in the
\* same cases and otherwise have the same sorted labels and the same values in
\* all five per-day series.
C2_MergeCommutes ==
    (pc = "done" /\ Len(datasets) = 2) =>
        /\ (merged = NULL) <=> (swapped = NULL)
        /\ merged # NULL =>
             /\ merged[1].daily.labels = swapped[1].daily.labels
             /\ \A f \in SeriesNames : merged[1].daily[f] = swapped[1].daily[f]

\* A's days come after B's, and both orders were merged
C2_Witness ==
    /\ pc = "done"
    /\ Len(datasets) = 2
    /\ datasets[1].daily.labels = <<DateISO(3), DateISO(2)>>
    /\ datasets[2].daily.labels = <<DateISO(2), DateISO(1)>>
    /\ merged # NULL
    /\ merged[1].daily.labels = <<DateISO(1), DateISO(2), DateISO(3)>>
    /\ swapped[1].daily.total = merged[1].daily.total
    /\ swapped[1].session_spans # merged[1].session_spans

----------------------------------------------------------------------------
(* Claims about calcRangedView and computeStats, under SpecView *)

ReqLo == IF reqStart <= reqEnd THEN reqStart ELSE reqEnd

ReqHi == IF reqStart <= reqEnd THEN reqEnd ELSE reqStart

HasLabels == Len(data.daily.labels) > 0

\* the labels of the aggregate inside the requested closed interval
InsideLabels == {l \in Range(data.daily.labels) : ReqLo <= l /\ l <= ReqHi}

\* the labels the view exposes
Exposed == {view.startISO, view.endISO} \cup Range(view.labels)

\* C3: for non-empty labels and every requested pair, calcRangedView returns
\* 0 <= startIndex <= endIndex <= length(labels) - 1.
C3_IndicesInBounds ==
    (pc # "start" /\ HasLabels) =>
        /\ 0 <= view.startIndex
        /\ view.startIndex <= view.endIndex
        /\ view.endIndex <= Len(data.daily.labels) - 1
        /\ Len(view.labels) = view.endIndex - view.startIndex + 1

\* a reversed request that lies entirely after the labels
C3_Witness ==
    /\ pc = "viewed"
    /\ data.daily.labels = <<DateISO(1), DateISO(2)>>
    /\ reqStart = DateISO(MaxDay + 1)
    /\ reqEnd = DateISO(MaxDay)
    /\ reqEnd > DateISO(2)
    /\ view.startIndex = 0
    /\ view.endIndex = 1

\* C4: for ascending duplicate-free labels and a requested pair, in either
\* order, with a label inside the requested closed interval, startIndex is the
\* index of the first label >= min(start, end), endIndex the index of the last
\* label <= max(start, end), the view's labels are exactly the labels inside
\* the interval, and the reversed pair gives the same view.
C4_RoundsInward ==
    (pc # "start" /\ HasLabels /\ IsAscending(data.daily.labels) /\ InsideLabels # {}) =>
        LET labels == data.daily.labels
            first  == CHOOSE i \in DOMAIN labels :
                         labels[i] >= ReqLo /\ \A j \in DOMAIN labels : labels[j] >= ReqLo => i <= j
            last   == CHOOSE i \in DOMAIN labels :
                         labels[i] <= ReqHi /\ \A j \in DOMAIN labels : labels[j] <= ReqHi => j <= i
        IN  /\ view.startIndex = first - 1
            /\ view.endIndex = last - 1
            /\ Range(view.labels) = InsideLabels
            /\ Len(view.labels) = Cardinality(InsideLabels)
            /\ calcRangedView(data, reqEnd, reqStart) = view

\* a reversed request whose both ends fall between labels, one label inside
C4_Witness ==
    /\ pc = "viewed"
    /\ data.daily.labels = <<DateISO(1), DateISO(3)>>
    /\ reqStart = DateISO(4)
    /\ reqEnd = DateISO(2)
    /\ view.startIndex = 1
    /\ view.endIndex = 1
    /\ view.labels = <<DateISO(3)>>

\* C5 as stated: for non-empty labels every label the view exposes is an
\* element of daily.labels inside the requested closed interval.
C5_AsStated ==
    (pc # "start" /\ HasLabels) =>
        \A l \in Exposed : l \in Range(data.daily.labels) /\ ReqLo <= l /\ l <= ReqHi

\* C5 amended: for non-empty labels every label the view exposes is an element
\* of daily.labels, the one at startIndex, at endIndex or between them; it lies
\* inside the requested closed interval when the labels are ascending and some
\* label lies inside the interval; when none does, the view is still non-empty
\* and the labels it exposes lie outside the interval.
C5_ExposedAreLabels ==
    (pc # "start" /\ HasLabels) =>
        /\ view.startISO = At(data.daily.labels, view.startIndex)
        /\ view.endISO = At(data.daily.labels, view.endIndex)
        /\ view.labels = Slice(data.daily.labels, view.startIndex, view.endIndex)
        /\ Exposed \subseteq Range(data.daily.labels)
        /\ (IsAscending(data.daily.labels) /\ InsideLabels # {}) => Exposed \subseteq InsideLabels
        /\ InsideLabels = {} =>
             (Exposed # {} /\ \A l \in Exposed : ~(ReqLo <= l /\ l <= ReqHi))

\* a request that starts between two labels and ends on the last one
C5_Witness ==
    /\ pc = "viewed"
    /\ data.daily.labels = <<DateISO(1), DateISO(3)>>
    /\ reqStart = DateISO(2)
    /\ reqEnd = DateISO(3)
    /\ Exposed = {DateISO(3)}

ViewIndices == view.startIndex..view.endIndex

NonEmptyView == view.endIndex >= view.startIndex

SeriesSum(values) == SumOver(ViewIndices, [i \in ViewIndices |-> At(values, i)])

\* C6: for a non-empty view computeStats returns, for each of the five series,
\* the sum of the series over startIndex..endIndex inclusive, and activeDays is
\* the number of those indices whose total is > 0.
C6_SumsOverView ==
    (pc = "done" /\ NonEmptyView) =>
        /\ stats.totalTokens = SeriesSum(data.daily.total)
        /\ stats.inputTokens = SeriesSum(data.daily.input)
        /\ stats.outputTokens = SeriesSum(data.daily.output)
        /\ stats.reasoningTokens = SeriesSum(data.daily.reasoning)
        /\ stats.cachedTokens = SeriesSum(data.daily.cached)
        /\ stats.activeDays = Cardinality({i \in ViewIndices : At(data.daily.total, i) > 0})

\* the example of the claim: totals [100, 50], the range is the first day
C6_Witness ==
    /\ pc = "done"
    /\ data.daily.labels = <<DateISO(1), DateISO(2)>>
    /\ data.daily.total = <<100, 50>>
    /\ reqStart = DateISO(1)
    /\ reqEnd = DateISO(1)
    /\ stats.totalTokens = 100
    /\ stats.activeDays = 1

DayModels(i) == Lookup(data.daily_models, view.labels[i], EmptyMap)

BucketNames == UNION {{normalizeModelName(m) : m \in DOMAIN DayModels(i)} : i \in DOMAIN view.labels}

\* the entries <<i, m>> of the view's days that fall into bucket key
BucketEntries(key) ==
    UNION {{<<i, m>> : m \in {x \in DOMAIN DayModels(i) : normalizeModelName(x) = key}} :
           i \in DOMAIN view.labels}

Bucket(key) ==
    LET es == BucketEntries(key)
    IN  [input_tokens            |-> SumOver(es, [e \in es |-> DayModels(e[1])[e[2]].input_tokens]),
         cached_input_tokens     |-> SumOver(es, [e \in es |-> DayModels(e[1])[e[2]].cached_input_tokens]),
         output_tokens           |-> SumOver(es, [e \in es |-> DayModels(e[1])[e[2]].output_tokens]),
         reasoning_output_tokens |-> SumOver(es, [e \in es |-> DayModels(e[1])[e[2]].reasoning_output_tokens]),
         total_tokens            |-> SumOver(es, [e \in es |-> DayModels(e[1])[e[2]].total_tokens])]

PricedBuckets == {k \in BucketNames : resolvePricing(k, data.pricing) # NULL}

\* C8: for a non-empty view, with daily_models aggregated over the view's
\* labels into one bucket per normalized model name, estimatedCost is null
\* exactly when no bucket resolves a price, and otherwise the sum of costUSD
\* over the priced buckets only (0 when each of them costs 0).
C8_CostNullOrSum ==
    (pc = "done" /\ NonEmptyView) =>
        /\ (stats.estimatedCost = NULL) <=> (PricedBuckets = {})
        /\ PricedBuckets # {} =>
             stats.estimatedCost =
                <<SumOver(PricedBuckets,
                          [k \in PricedBuckets |->
                              costUSD(Bucket(k), resolvePricing(k, data.pricing))[1]])>>

\* a bucket priced at zero beside an unpriced bucket: the cost is 0, not null
C8_Witness ==
    /\ pc = "done"
    /\ data.pricing = <<BookZero>>
    /\ PricedBuckets = {<<"o3">>}
    /\ BucketNames = {<<"o3">>, GPT5}
    /\ Len(view.labels) = 2
    /\ stats.estimatedCost = <<0>>

----------------------------------------------------------------------------
(* C11 *)

RECURSIVE ReachFrom(_, _)
ReachFrom(aliases, S) ==
    LET next == S \cup {aliases[n] : n \in {m \in S \cap DOMAIN aliases : aliases[m] # << >>}}
    IN  IF next = S THEN S ELSE ReachFrom(aliases, next)

\* the names the alias table leads to from the starting name
Reachable == ReachFrom(walkAliases, {walkStart})

\* the pairs of distinct names aliased to each other
TwoCycles ==
    {pair \in SUBSET (DOMAIN walkAliases) :
        /\ Cardinality(pair) = 2
        /\ \A x \in pair : walkAliases[x] \in pair \ {x}}

\* C11: the alias walk terminates for every alias table, cyclic ones included:
\* it makes at most as many replacements as the table has keys, every
\* replacement expands a name not expanded before, a step is always possible
\* until it returns, the name it returns is reachable from the starting name
\* and is the one deAlias computes, and a walk started on a two-name cycle
\* returns one of the two names of the cycle.
C11_AliasWalkTerminates ==
    /\ walkSteps <= Cardinality(DOMAIN walkAliases)
    /\ walkSteps = Cardinality(walkSeen)
    /\ walkCursor \in Reachable
    /\ pc = "walking" => ENABLED NextAlias
    /\ pc = "done" =>
        /\ walkCursor = deAlias(walkAliases, walkStart)
        /\ \A pair \in TwoCycles : walkStart \in pair => walkCursor \in pair

\* a walk around the cycle a -> b -> a has returned after two replacements
C11_Witness ==
    /\ pc = "done"
    /\ walkAliases = (<<"a">> :> <<"b">>) @@ (<<"b">> :> <<"a">>)
    /\ walkStart = <<"a">>
    /\ walkSteps = 2
    /\ walkCursor = <<"a">>

----------------------------------------------------------------------------
(* C12 *)

PricingBookOf == IF book = NULL THEN EmptyBook ELSE book[1]

PricedKeys == DOMAIN PricingBookOf.prices.rec

FullName == deAlias(PricingBookOf.aliases, normalizeModelName(model))

BaseName == deAlias(PricingBookOf.aliases, SplitHead(FullName))

\* steps 1 to 3 of the resolution priced nothing
ReachesLadder ==
    /\ FullName \notin PricedKeys
    /\ BaseName \notin PricedKeys
    /\ \A k \in PricedKeys : ~StartsWith(BaseName, k \o <<"-">>)

\* the dotted minor version the base name carries, 0 when it carries none
MinorOf(base) ==
    IF Includes(base, GPT53) THEN 3
    ELSE IF Includes(base, GPT52) THEN 2
    ELSE IF Includes(base, GPT51) THEN 1
    ELSE 0

MinorKey(n) == IF n = 3 THEN GPT53 ELSE IF n = 2 THEN GPT52 ELSE GPT51

PriceIfPresent(key) ==
    IF key \in PricedKeys THEN <<PricingBookOf.prices.rec[key]>> ELSE NULL

\* C12 as stated: for a base name carrying a dotted minor version that steps
\* 1 to 3 did not price, the ladder returns the price of the nearest minor
\* version at or below it that the price table holds, the bare gpt-5 price
\* when the table holds no such minor version, and null only when it holds
\* neither.
C12_AsStated ==
    (pc # "start" /\ ReachesLadder /\ MinorOf(BaseName) > 0) =>
        LET lower == {n \in 1..MinorOf(BaseName) : MinorKey(n) \in PricedKeys}
        IN  IF lower # {}
            THEN priced = PriceIfPresent(MinorKey(CHOOSE n \in lower : \A m \in lower : m <= n))
            ELSE priced = PriceIfPresent(GPT5)

\* C12 amended: the ladder is the literal table of data.ts 97-99. A base name
\* containing gpt-5.3 gets the gpt-5.2 price, else the bare gpt-5 price, else
\* null, and never the gpt-5.1 price; one containing gpt-5.2 gets the gpt-5.2
\* price or null; one containing gpt-5.1 gets the gpt-5.1 price or null;
\* neither of these two falls back to a lower minor version or to gpt-5.
C12_LadderIsLiteral ==
    (pc # "start" /\ ReachesLadder /\ MinorOf(BaseName) > 0) =>
        IF MinorOf(BaseName) = 3
        THEN IF GPT52 \in PricedKeys THEN priced = PriceIfPresent(GPT52)
             ELSE priced = PriceIfPresent(GPT5)
        ELSE IF MinorOf(BaseName) = 2 THEN priced = PriceIfPresent(GPT52)
        ELSE priced = PriceIfPresent(GPT51)

\* gpt-5.2 resolved against a table that prices gpt-5.1 and gpt-5 but not
\* gpt-5.2: no price
C12_Witness ==
    /\ pc = "resolved"
    /\ model = GPT52
    /\ PricingBookOf.aliases = EmptyMap
    /\ PricedKeys \cap {GPT5, GPT51, GPT52} = {GPT5, GPT51}
    /\ priced = NULL

----------------------------------------------------------------------------
(* C13 *)

\* the atoms of s that are not whitespace, in order
NonSpace(s) == SelectSeq(s, LAMBDA c : ~IsSpace(c))

RECURSIVE IsSubsequence(_, _)
IsSubsequence(a, b) ==
    IF a = << >> THEN TRUE
    ELSE IF b = << >> THEN FALSE
    ELSE IF Head(a) = Head(b) THEN IsSubsequence(Tail(a), Tail(b))
    ELSE IsSubsequence(a, Tail(b))

\* no leading, trailing or doubled whitespace
Tidy(s) ==
    /\ s # << >> => ~IsSpace(s[1]) /\ ~IsSpace(s[Len(s)])
    /\ \A i \in 1..(Len(s) - 1) : ~(IsSpace(s[i]) /\ IsSpace(s[i + 1]))

HasParenthetical(s) ==
    \E i \in DOMAIN s : IsOpen(s[i]) /\ \E k \in (i + 1)..Len(s) : IsClose(s[k])

HasParenAtom(s) == \E i \in DOMAIN s : IsOpen(s[i]) \/ IsClose(s[i])

\* C13 as stated: whenever the trimmed name has a remainder after its first
\* ":", the result ends with ":" followed by that remainder character for
\* character.
C13_AsStated ==
    (pc = "done" /\ SplitTail(Trim(model)) # << >>) =>
        normalizedName = SplitHead(normalizedName) \o <<":">> \o SplitTail(Trim(model))

\* C13 amended: the blank name gives "unknown"; otherwise the result is a
\* head, followed by ":" and the remainder after the first ":" trimmed of its
\* leading and trailing whitespace when that trimmed remainder is not empty,
\* and the head alone when it is empty. The head is never empty, has no
\* leading, trailing or doubled whitespace and no parenthetical, keeps the
\* non-blank atoms of the input's head in their order ("unknown" when none is
\* left), and keeps all of them when the input's head has no parenthesis.
C13_SuffixTrimmed ==
    pc = "done" =>
        LET trimmed == Trim(model)
            head    == SplitHead(trimmed)
            sfx     == Trim(SplitTail(trimmed))
            outHead == SplitHead(normalizedName)
        IN  IF trimmed = << >> THEN normalizedName = UNKNOWN
            ELSE /\ outHead # << >>
                 /\ Tidy(outHead)
                 /\ ~HasParenthetical(outHead)
                 /\ \/ IsSubsequence(NonSpace(outHead), NonSpace(head)) /\ NonSpace(outHead) # << >>
                    \/ outHead = UNKNOWN
                 /\ (~HasParenAtom(head) /\ NonSpace(head) # << >>) =>
                        NonSpace(outHead) = NonSpace(head)
                 /\ normalizedName =
                        outHead \o (IF sfx = << >> THEN << >> ELSE <<":">> \o sfx)

\* " o3 (x): ft " with fullwidth parentheses becomes "o3:ft": the blank
\* after the colon is not kept
C13_Witness ==
    /\ pc = "done"
    /\ model = <<" ", "o3", " ", "FW(", "x", "FW)", ":", " ", "ft", " ">>
    /\ normalizedName = <<"o3", ":", "ft">>

----------------------------------------------------------------------------
(* C14 *)

\* r is x / y rounded to the nearest integer, halves upwards
IsRounded(r, x, y) == 2 * r * y - y <= 2 * x /\ 2 * x < 2 * r * y + y

\* C14: computeStats never divides by zero. avgPerDay is total / activeDays
\* rounded when activeDays > 0 and 0 otherwise, avgPerSession is
\* total / sessions rounded when sessions > 0 and 0 otherwise, and cacheRate
\* is cached / input when input > 0 and 0 otherwise.
C14_AveragesGuarded ==
    pc = "done" =>
        /\ IF stats.activeDays > 0
           THEN IsRounded(stats.avgPerDay, stats.totalTokens, stats.activeDays)
           ELSE stats.avgPerDay = 0
        /\ IF stats.sessions > 0
           THEN IsRounded(stats.avgPerSession, stats.totalTokens, stats.sessions)
           ELSE stats.avgPerSession = 0
        /\ stats.cacheRate.den > 0
        /\ IF stats.inputTokens > 0
           THEN stats.cacheRate.num * stats.inputTokens
                    = stats.cachedTokens * stats.cacheRate.den
           ELSE stats.cacheRate.num = 0

\* 200 tokens over three active days, no session, no input tokens on any day
\* but the first: the average per day is 67, the average per session 0
C14_Witness ==
    /\ pc = "done"
    /\ NonEmptyView
    /\ stats.totalTokens = 200
    /\ stats.activeDays = 3
    /\ stats.avgPerDay = 67
    /\ stats.sessions = 0
    /\ stats.avgPerSession = 0
    /\ stats.inputTokens = 60
    /\ stats.cacheRate = [num |-> 20, den |-> 60]

----------------------------------------------------------------------------
(* C15 *)

\* the view of the state with its indices replaced by every pair end < start
EmptyViews ==
    {[view EXCEPT !.startIndex = p[1], !.endIndex = p[2]] :
        p \in {q \in (0..(MaxDay + 1)) \X (-1..MaxDay) : q[2] < q[1]}}

AllZero(st) ==
    /\ st.totalTokens = 0 /\ st.inputTokens = 0 /\ st.outputTokens = 0
    /\ st.cachedTokens = 0 /\ st.reasoningTokens = 0
    /\ st.cacheRate.num = 0
    /\ st.sessions = 0 /\ st.activeDays = 0
    /\ st.avgPerDay = 0 /\ st.avgPerSession = 0
    /\ st.estimatedCost = NULL

\* C15: when daily.labels is empty calcRangedView returns the empty view
\* (no labels, endIndex = -1 below startIndex = 0) for every requested pair,
\* and computeStats on a view with endIndex < startIndex returns 0 in every
\* numeric field and a null estimated cost, whatever series, spans, models
\* and pricing the aggregate holds.
C15_EmptyViewZeroStats ==
    /\ (pc # "start" /\ data.daily.labels = << >>) =>
           /\ view.labels = << >>
           /\ view.startIndex = 0
           /\ view.endIndex = -1
    /\ (pc = "done" /\ ~NonEmptyView) => AllZero(stats)
    /\ pc = "done" => \A v \in EmptyViews : AllZero(computeStats(data, v))

\* an aggregate without labels that holds series values, a span overlapping
\* the request, models and a pricing book: the statistics are all zero
C15_Witness ==
    /\ pc = "done"
    /\ data.daily.labels = << >>
    /\ data.daily.total # << >>
    /\ data.session_spans # << >>
    /\ data.daily_models # EmptyMap
    /\ data.pricing = Some(BookAll)
    /\ reqStart = DateISO(1)
    /\ reqEnd = DateISO(MaxDay)
    /\ view.endIndex = -1
    /\ AllZero(stats)

----------------------------------------------------------------------------
(* C16 *)

WholeSeries(values) == SumOver(DOMAIN values, values)

\* C16: for an aggregate with labels, the ALL preset resolved as the app does
\* (calcRangeByPreset on data.range.start and data.range.end, calcRangedView,
\* computeStats) gives a view over indices 0 .. length - 1 and totals equal to
\* the sum of each series over its whole length, whatever range.start and
\* range.end are.
C16_AllCoversEverything ==
    (pc = "done" /\ activeRange = "ALL" /\ HasLabels) =>
        /\ view.startIndex = 0
        /\ view.endIndex = Len(data.daily.labels) - 1
        /\ stats.totalTokens = WholeSeries(data.daily.total)
        /\ stats.inputTokens = WholeSeries(data.daily.input)
        /\ stats.outputTokens = WholeSeries(data.daily.output)
        /\ stats.cachedTokens = WholeSeries(data.daily.cached)
        /\ stats.reasoningTokens = WholeSeries(data.daily.reasoning)

----------------------------------------------------------------------------
(* C17 *)

\* the number of hourly points of the view
HourlyCount == HOURS * Len(view.labels)

\* the day and the hour of the k-th hourly point, k from 1
HourlyDay(k) == view.labels[((k - 1) \div HOURS) + 1]

HourlyHour(k) == (k - 1) % HOURS

\* the count of that hour in hourly_daily, 0 when the day or the hour is missing
HourlyTokens(k) ==
    IF HourlyDay(k) \in DOMAIN data.hourly_daily
       /\ HourlyHour(k) + 1 \in DOMAIN data.hourly_daily[HourlyDay(k)]
    THEN data.hourly_daily[HourlyDay(k)][HourlyHour(k) + 1]
    ELSE 0

\* the least s with s * maxPoints >= the number of hourly points
BucketSize ==
    IF HourlyCount <= maxPoints THEN 1
    ELSE CHOOSE sz \in 1..HourlyCount :
            sz * maxPoints >= HourlyCount /\ (sz - 1) * maxPoints < HourlyCount

\* the hourly points of bucket b, b from 1
BucketPoints(b) == ((b - 1) * BucketSize + 1)..Min(b * BucketSize, HourlyCount)

\* C17: the chart holds, for each view label in order, its 24 hours in
\* order with a missing count read as 0; when these are more than maxPoints
\* they are summed in contiguous buckets of ceil(count / maxPoints) points.
\* The chart never has more than maxPoints points, keeps the total token
\* count and the order, and labels each bucket with its last point's label.
C17_ChartBuckets ==
    pc = "charted" =>
        /\ Len(chart) <= maxPoints
        /\ Len(chart) * BucketSize >= HourlyCount
        /\ (Len(chart) - 1) * BucketSize < HourlyCount \/ HourlyCount = 0
        /\ \A b \in DOMAIN chart :
              LET last == Min(b * BucketSize, HourlyCount)
              IN  /\ chart[b].label = <<HourlyDay(last), HourlyHour(last)>>
                  /\ chart[b].tokens =
                        SumOver(BucketPoints(b), [k \in BucketPoints(b) |-> HourlyTokens(k)])
        /\ SumOver(DOMAIN chart, [b \in DOMAIN chart |-> chart[b].tokens])
              = SumOver(1..HourlyCount, [k \in 1..HourlyCount |-> HourlyTokens(k)])

\* three days of hours, one with 24 counts, one with 2 counts, one without
\* any, charted with at most 7 points: 7 buckets of 11 hours, 19 tokens
C17_Witness ==
    /\ pc = "charted"
    /\ maxPoints = 7
    /\ view.labels = AllLabels
    /\ DOMAIN data.hourly_daily = {DateISO(1), DateISO(2)}
    /\ data.hourly_daily[DateISO(1)] = SomeHours
    /\ data.hourly_daily[DateISO(2)] = ShortHours
    /\ Len(chart) = 7
    /\ chart[1] = [label |-> <<DateISO(1), 10>>, tokens |-> 5]
    /\ chart[7].label = <<DateISO(MaxDay), HOURS - 1>>
    /\ SumOver(DOMAIN chart, [b \in DOMAIN chart |-> chart[b].tokens]) = 19

----------------------------------------------------------------------------
(* C18 *)

HasDays(d) == Len(d.daily.labels) > 0

\* the places of the inputs that have labels
WithDays == {k \in DOMAIN datasets : HasDays(datasets[k])}

\* C18: mergeReportData returns null exactly when no input has labels (the
\* empty list included); an input without labels is dropped, so that the
\* result is the one of merging the other inputs alone, and its models,
\* hours, spans and events appear nowhere in it.
C18_NullIffNoLabels ==
    pc # "start" =>
        /\ (merged = NULL) <=> (WithDays = {})
        /\ merged = mergeReportData(SelectSeq(datasets, HasDays))
        /\ merged # NULL =>
             /\ Len(merged[1].session_spans)
                  = SumOver(WithDays, [k \in WithDays |-> Len(datasets[k].session_spans)])
             /\ Len(merged[1].events)
                  = SumOver(WithDays, [k \in WithDays |-> Len(datasets[k].events)])
             /\ DOMAIN merged[1].hourly_daily
                  = UNION {DOMAIN datasets[k].hourly_daily : k \in WithDays}
             /\ DOMAIN merged[1].daily_models
                  = UNION {DOMAIN datasets[k].daily_models : k \in WithDays}

\* an input without labels that holds a span, an event, hours and models for
\* day 1, merged with an input for day 2 without any of these
C18_Witness ==
    /\ pc = "merged"
    /\ Len(datasets) = 2
    /\ datasets[1] = GhostData
    /\ datasets[2].daily.labels = <<DateISO(2)>>
    /\ datasets[2].session_spans = << >>
    /\ merged # NULL
    /\ merged[1].daily.labels = <<DateISO(2)>>
    /\ merged[1].session_spans = << >>
    /\ merged[1].events = << >>
    /\ merged[1].hourly_daily = EmptyMap
    /\ merged[1].daily_models = EmptyMap

----------------------------------------------------------------------------
(* C19 *)

\* the lists in field f of the inputs ds, one after the other
RECURSIVE ConcatFields(_, _)
ConcatFields(ds, f) ==
    IF ds = << >> THEN << >> ELSE Head(ds)[f] \o ConcatFields(Tail(ds), f)

BreakdownFields == {"input_tokens", "cached_input_tokens", "output_tokens",
                    "reasoning_output_tokens", "total_tokens"}

\* the sum of field f over the models of one day of d that normalize to name
ModelSum(d, day, name, f) ==
    LET same == {m \in DOMAIN d.daily_models[day] : normalizeModelName(m) = name}
    IN  SumOver(same, [m \in same |-> d.daily_models[day][m][f]])

\* the merged aggregate holds everything of input a twice
TwiceOf(a, two) ==
    LET one == mergeReportData(<<a>>)[1]
    IN  /\ two.daily.labels = one.daily.labels
        /\ \A f \in SeriesNames : \A i \in DOMAIN two.daily.labels :
              /\ two.daily[f][i] = 2 * one.daily[f][i]
              /\ two.daily[f][i] = 2 * DaySum(<<a>>, f, two.daily.labels[i])
        /\ DOMAIN two.daily_models = DOMAIN a.daily_models
        /\ \A day \in DOMAIN a.daily_models :
              /\ DOMAIN two.daily_models[day]
                   = {normalizeModelName(m) : m \in DOMAIN a.daily_models[day]}
              /\ \A name \in DOMAIN two.daily_models[day] : \A f \in BreakdownFields :
                    two.daily_models[day][name][f] = 2 * ModelSum(a, day, name, f)
        /\ DOMAIN two.hourly_daily = DOMAIN a.hourly_daily
        /\ \A day \in DOMAIN a.hourly_daily : \A h \in 1..HOURS :
              two.hourly_daily[day][h] = 2 * OrZero(a.hourly_daily[day], h)
        /\ two.session_spans = a.session_spans \o a.session_spans
        /\ two.events = a.events \o a.events

\* C19 as stated: the merged session_spans and events are the concatenation,
\* in input order, of the lists of all the inputs, so that their lengths are
\* the sums of the inputs' lengths.
C19_AsStated ==
    (pc # "start" /\ merged # NULL) =>
        /\ merged[1].session_spans = ConcatFields(datasets, "session_spans")
        /\ merged[1].events = ConcatFields(datasets, "events")

\* C19 amended: the merged session_spans and events are the concatenation,
\* in input order, of the lists of the inputs that have labels, nothing
\* removed; and merging an input that has labels with itself gives twice its
\* per-day values, twice its per-day counts of every normalized model,
\* twice its hourly counts, and its spans and events twice.
C19_ConcatNoDedup ==
    (pc # "start" /\ merged # NULL) =>
        /\ merged[1].session_spans
             = ConcatFields(SelectSeq(datasets, HasDays), "session_spans")
        /\ merged[1].events = ConcatFields(SelectSeq(datasets, HasDays), "events")
        /\ (Len(datasets) = 2 /\ datasets[1] = datasets[2]) =>
               TwiceOf(datasets[1], merged[1])

\* an input with models, hours, a span and an event on two days, merged
\* with itself
C19_Witness ==
    /\ pc = "merged"
    /\ Len(datasets) = 2
    /\ datasets[1] = datasets[2]
    /\ datasets[1].daily.labels = <<DateISO(1), DateISO(2)>>
    /\ datasets[1].daily_models # EmptyMap
    /\ Len(datasets[1].session_spans) = 1
    /\ merged # NULL
    /\ Len(merged[1].session_spans) = 2
    /\ Len(merged[1].events) = 2
    /\ merged[1].daily.total[1] = 2 * datasets[1].daily.total[1]
    /\ merged[1].daily_models[DateISO(1)][GPT5].total_tokens
         = 2 * (BreakdownA.total_tokens + BreakdownB.total_tokens)
    /\ merged[1].hourly_daily[DateISO(1)][1] = 2 * SomeHours[1]

----------------------------------------------------------------------------
(* C20 *)

HasMember(v, name) == v.kind = "object" /\ name \in DOMAIN v.fields

\* the value of the member data when it is an object or an array, else v
Unwrapped(v) ==
    IF HasMember(v, "data") /\ v.fields["data"].kind \in {"object", "array"}
    THEN v.fields["data"]
    ELSE v

\* a truthy range and a daily object whose labels and total are arrays
Acceptable(v) ==
    /\ HasMember(v, "range")
    /\ v.fields["range"].kind \in {"true", "number", "string", "array", "object"}
    /\ HasMember(v, "daily")
    /\ HasMember(v.fields["daily"], "labels")
    /\ HasMember(v.fields["daily"], "total")
    /\ v.fields["daily"].fields["labels"].kind = "array"
    /\ v.fields["daily"].fields["total"].kind = "array"

\* C20: normalizeImportedData never raises. For every parsed JSON value it
\* returns null unless the value, after unwrapping its member data when that
\* is an object (or an array, which typeof also calls an object), has a
\* truthy range and a daily object whose labels and total are both arrays;
\* when it accepts it returns that unwrapped object itself.
C20_ImportAcceptsExactly ==
    pc = "done" =>
        /\ imported.outcome = "return"
        /\ imported.value =
             (IF Acceptable(Unwrapped(parsed)) THEN Some(Unwrapped(parsed)) ELSE NULL)

\* the export payload {version, exported_at, data: D} of a valid aggregate D
\* yields D
C20_Witness ==
    /\ pc = "done"
    /\ parsed = ExportPayload(ValidAggregate)
    /\ imported = Returned(Some(ValidAggregate))

----------------------------------------------------------------------------
(* Accepted run: mergeReportData, calcRangedView, computeStats and          *)
(* buildChartSeries on an object normalizeImportedData accepted             *)

MissingChoices ==
    {{}} \cup {{name} : name \in OptionalFields} \cup {SeriesFields, OptionalFields}

AcceptedObjects ==
    {Accepted(MergeData(labels, 2), missing) : labels \in LabelSeqs, missing \in MissingChoices}

\* the aggregate the page has loaded
LoadedData == Accepted(MergeData(<<DateISO(1)>>, 1), {})

Pending == [outcome |-> "pending", value |-> NULL]

InitAccepted ==
    /\ loose \in AcceptedObjects
    /\ outcomes = [merge |-> Pending, stats |-> Pending, chart |-> Pending]
    /\ reqStart \in Requests
    /\ reqEnd \in Requests
    /\ view = NULL
    /\ maxPoints = DefaultMaxPoints
    /\ pc = "start"
    /\ IdleFlow
    /\ IdleRest
    /\ IdleMerge
    /\ IdlePricing
    /\ IdleWalk
    /\ data = << >> /\ stats = << >>
    /\ normalizedName = << >> /\ activeRange = "ALL" /\ tzAhead = FALSE
    /\ chart = << >> /\ parsed = JUndefined /\ imported = << >>

\* mergeReportData([data, imported]) as importFiles calls it
MergeAccepted ==
    /\ pc = "start"
    /\ outcomes' = [outcomes EXCEPT !.merge = mergeReportDataOutcome(<<LoadedData, loose>>)]
    /\ pc' = "merged"
    /\ UNCHANGED <<coreVars, auxVars, flowVars, restVars, loose>>

RangeAccepted ==
    /\ pc = "merged"
    /\ view' = calcRangedView(loose.agg, reqStart, reqEnd)
    /\ pc' = "viewed"
    /\ UNCHANGED <<datasets, merged, swapped, data, reqStart, reqEnd, stats,
                   model, book, rec, priced, cost>>
    /\ UNCHANGED <<auxVars, extraVars>>

StatsAccepted ==
    /\ pc = "viewed"
    /\ outcomes' = [outcomes EXCEPT !.stats = computeStatsOutcome(loose, view)]
    /\ pc' = "counted"
    /\ UNCHANGED <<coreVars, auxVars, flowVars, restVars, loose>>

ChartAccepted ==
    /\ pc = "counted"
    /\ outcomes' = [outcomes EXCEPT !.chart = buildChartSeriesOutcome(loose, view, maxPoints)]
    /\ pc' = "done"
    /\ UNCHANGED <<coreVars, auxVars, flowVars, restVars, loose>>

NextAccepted == MergeAccepted \/ RangeAccepted \/ StatsAccepted \/ ChartAccepted

SpecAccepted == InitAccepted /\ [][NextAccepted]_vars

----------------------------------------------------------------------------
(* C23 *)

\* C23 as stated: no condition is fatal; on every object normalizeImportedData
\* accepts, whichever optional members it lacks, mergeReportData, computeStats
\* and buildChartSeries return a value and none of them raises.
C23_AsStated ==
    \A name \in {"merge", "stats", "chart"} :
        pc = "done" => outcomes[name].outcome = "return"

\* What the code does instead: mergeReportData raises exactly when the object
\* has a label and lacks one of daily.input/output/reasoning/cached, computeStats
\* raises exactly when the view is non-empty and one of those four or daily_models
\* is lacking, and buildChartSeries always returns.
C23_RaisesWhenSeriesMissing ==
    pc = "done" =>
        /\ outcomes.merge.outcome = "throw"
            <=> (loose.agg.daily.labels # << >> /\ loose.missing \cap SeriesFields # {})
        /\ outcomes.stats.outcome = "throw"
            <=> (/\ view.endIndex >= view.startIndex
                 /\ loose.missing \cap (SeriesFields \cup {"daily_models"}) # {})
        /\ outcomes.chart.outcome = "return"

\* an accepted object with one label and no daily.input: both the merge and
\* the statistics of its only day raise
C23_MergeRaised ==
    /\ pc = "done"
    /\ loose = Accepted(MergeData(<<DateISO(1)>>, 2), {"input"})
    /\ view.startIndex = 0 /\ view.endIndex = 0
    /\ outcomes.merge = Thrown
    /\ outcomes.stats = Thrown

----------------------------------------------------------------------------
(* Import flow: App.handleImport awaiting useReportData.importFiles.        *)
(* A file of the batch is unreadable (readFileText rejects), has a syntax   *)
(* error (JSON.parse raises), is rejected (normalizeImportedData returns    *)
(* null) or is accepted, and then carries the accepted object.  One step is *)
(* the code that runs between two awaits.                                   *)

UnreadableFile == [kind |-> "unreadable", object |-> NULL]

SyntaxErrorFile == [kind |-> "syntax", object |-> NULL]

RejectedFile == [kind |-> "rejected", object |-> NULL]

AcceptedFile(o) == [kind |-> "accepted", object |-> Some(o)]

\* accepted objects: complete or without daily.input, with a label or without
FileObjects ==
    {Accepted(MergeData(labels, 2), missing) :
        labels \in {<< >>, <<DateISO(2)>>}, missing \in {{}, {"input"}}}

Files == {UnreadableFile, SyntaxErrorFile, RejectedFile} \cup {AcceptedFile(o) : o \in FileObjects}

MaxFiles == 2

Batches == UNION {[1..n -> Files] : n \in 0..MaxFiles}

\* the data state: nothing loaded yet, an aggregate without labels, one with
DataStates ==
    {NULL, Some(Accepted(MergeData(<< >>, 1), {})), Some(LoadedData)}

\* the body of the loop without its else branch: a file normalizeImportedData
\* rejects is not counted
importOneUncounted(file, acc, inv) ==
    IF file.kind = "accepted"
    THEN [accepted |-> Append(acc, file.object[1]), invalid |-> inv]
    ELSE [accepted |-> acc, invalid |-> IF file.kind = "rejected" THEN inv ELSE inv + 1]

\* the body of the loop of importFiles: try { read; parse; normalize;
\* if (normalized) imported.push(normalized) else invalid += 1 } catch { invalid += 1 }
importOne(file, acc, inv) ==
    IF file.kind = "accepted"
    THEN [accepted |-> Append(acc, file.object[1]), invalid |-> inv]
    ELSE [accepted |-> acc, invalid |-> inv + 1]

Counts(m, i) == [merged |-> m, invalid |-> i]

\* importFiles after the loop: how the promise settles
importSettles(captured, acc, inv) ==
    IF acc = << >> THEN Returned(Counts(0, inv))
    ELSE LET merge == mergeReportDataOutcome(<<captured>> \o acc)
         IN  IF merge.outcome = "throw" THEN Thrown
             ELSE IF merge.value = NULL THEN Returned(Counts(0, inv + Len(acc)))
             ELSE Returned(Counts(Len(acc), inv))

\* importFiles after the loop: the data state, setData(merged) when there is one
importSetsData(state, captured, acc) ==
    IF acc = << >> THEN state
    ELSE LET merge == mergeReportDataOutcome(<<captured>> \o acc)
         IN  IF merge.outcome = "throw" \/ merge.value = NULL THEN state
             ELSE Some([agg |-> merge.value[1], missing |-> {}])

InitFlow ==
    /\ current \in DataStates
    /\ data = current
    /\ files \in Batches
    /\ fileIndex = 0 /\ accepted = << >> /\ invalid = 0
    /\ result = Pending
    /\ importing = FALSE /\ importStatus = ""
    /\ pc = "idle"
    /\ IdleRest
    /\ IdleLoose /\ IdleWalk /\ IdleMerge /\ IdlePricing
    /\ reqStart = 0 /\ reqEnd = 0 /\ view = << >> /\ stats = << >>
    /\ normalizedName = << >> /\ activeRange = "ALL" /\ tzAhead = FALSE
    /\ maxPoints = 0 /\ chart = << >> /\ parsed = JUndefined /\ imported = << >>

\* handleImport up to the await, importFiles up to its first await; data is
\* the value of the data state captured by the callback
HandleImport ==
    /\ pc = "idle"
    /\ importing' = TRUE
    /\ IF data = NULL \/ files = << >>
       THEN /\ result' = Returned(Counts(0, 0))
            /\ pc' = "settled"
       ELSE /\ result' = result
            /\ pc' = "reading"
    /\ UNCHANGED <<coreVars, auxVars, looseVars, restVars, current, files, fileIndex, accepted,
                   invalid, importStatus>>

\* one turn of the loop; after the last file the rest of importFiles runs
ImportFile ==
    /\ pc = "reading"
    /\ LET after == importOne(files[fileIndex + 1], accepted, invalid)
       IN  /\ fileIndex' = fileIndex + 1
           /\ accepted' = after.accepted
           /\ invalid' = after.invalid
           /\ IF fileIndex + 1 < Len(files)
              THEN UNCHANGED <<result, current, pc>>
              ELSE /\ result' = importSettles(data[1], after.accepted, after.invalid)
                   /\ current' = importSetsData(current, data[1], after.accepted)
                   /\ pc' = "settled"
    /\ UNCHANGED <<coreVars, auxVars, looseVars, restVars, files, importing, importStatus>>

\* handleImport after the await, when importFiles resolved
ImportResolved ==
    /\ pc = "settled"
    /\ result.outcome = "return"
    /\ importStatus' = IF result.value.merged > 0 THEN "importOk" ELSE "importFail"
    /\ importing' = FALSE
    /\ pc' = "done"
    /\ UNCHANGED <<coreVars, auxVars, looseVars, restVars, current, files, fileIndex, accepted,
                   invalid, result>>

\* handleImport after the await, when importFiles rejected: the await raises,
\* nothing after it runs and the promise of void handleImport(files) rejects
ImportRejected ==
    /\ pc = "settled"
    /\ result.outcome = "throw"
    /\ pc' = "rejected"
    /\ UNCHANGED <<coreVars, auxVars, looseVars, restVars, flowVars>>

NextFlow == HandleImport \/ ImportFile \/ ImportResolved \/ ImportRejected

SpecFlow == InitFlow /\ [][NextFlow]_vars

\* a step of NextFlow seen through pc and fileIndex alone: a continuation that
\* is ready runs
Continuation ==
    \/ pc = "idle" /\ pc' \in {"reading", "settled"} /\ fileIndex' = fileIndex
    \/ pc = "reading" /\ pc' \in {"reading", "settled"} /\ fileIndex' = fileIndex + 1
    \/ pc = "settled" /\ pc' \in {"done", "rejected"} /\ fileIndex' = fileIndex

\* the event loop runs every continuation that is ready: the FileReader of
\* readFileText always fires load or error, and a settled promise resumes its
\* awaiter
FairFlow == SpecFlow /\ WF_<<pc, fileIndex>>(Continuation)

----------------------------------------------------------------------------
(* C21 *)

RECURSIVE FailedAmong(_, _)
FailedAmong(batch, n) ==
    IF n = 0 THEN 0
    ELSE (IF batch[n].kind = "accepted" THEN 0 ELSE 1) + FailedAmong(batch, n - 1)

ImportReturned == pc \in {"settled", "done"} /\ result.outcome = "return"

\* C21: importFiles handles every file of the batch whatever happened to the
\* files before it: after n files, invalid is the number of failed files among
\* them and imported holds the others.  When the data is non-null and the batch
\* is non-empty, the counts it returns add up to the number of files and invalid
\* is at least the number of failed files.  The data state changes only when a
\* file was accepted, and then to the merge of the data and the accepted objects.
C21_EveryFileCounted ==
    /\ invalid = FailedAmong(files, fileIndex)
    /\ Len(accepted) = fileIndex - invalid
    /\ (pc \in {"settled", "done", "rejected"} /\ data # NULL) => fileIndex = Len(files)
    /\ (ImportReturned /\ data # NULL /\ files # << >>) =>
          /\ result.value.merged + result.value.invalid = Len(files)
          /\ result.value.invalid >= FailedAmong(files, Len(files))
          /\ result.value.merged \in {0, Len(accepted)}
    /\ current # data =>
          /\ accepted # << >>
          /\ ImportReturned
          /\ result.value.merged = Len(accepted)
          /\ current[1].agg = mergeReportData(<<data[1].agg>> \o Aggregates(accepted))[1]

\* an unreadable file came first and the accepted file after it was merged
C21_Witness ==
    /\ pc = "done"
    /\ files = <<UnreadableFile, AcceptedFile(Accepted(MergeData(<<DateISO(2)>>, 2), {}))>>
    /\ result = Returned(Counts(1, 1))
    /\ current # data

----------------------------------------------------------------------------
(* C25 *)

\* C25 as stated: every import attempt started by handleImport eventually sets
\* importing back to false and sets an import status, whatever the files hold.
C25_AsStated == importing ~> (~importing /\ importStatus # "")

\* What the code does instead: when mergeReportData raises inside importFiles
\* the attempt ends with importing still true and no status; every other
\* attempt ends with importing false and a status.
C25_StuckWhenMergeRaises ==
    /\ pc = "rejected" =>
          /\ importing /\ importStatus = ""
          /\ \E k \in DOMAIN accepted : mergeDayMapThrows(accepted[k])
    /\ pc = "done" => (~importing /\ importStatus # "")

\* a batch whose only file is accepted without daily.input leaves the flag set
C25_Stuck ==
    /\ pc = "rejected"
    /\ files = <<AcceptedFile(Accepted(MergeData(<<DateISO(2)>>, 2), {"input"}))>>
    /\ importing
    /\ importStatus = ""

----------------------------------------------------------------------------
(* C24 *)

\* the ISO string has a time part
HasTimePart(iso) == iso % TimeSlots # 0

\* the date-only string of the day of an ISO string
DayOfISO(iso) == (iso \div TimeSlots) * TimeSlots

\* the spans that start and end at timestamps of days of the view
SpansOnViewDays(d, v) ==
    {i \in DOMAIN d.session_spans :
        /\ HasTimePart(d.session_spans[i].start)
        /\ HasTimePart(d.session_spans[i].end)
        /\ DayOfISO(d.session_spans[i].start) \in Range(v.labels)
        /\ DayOfISO(d.session_spans[i].end) \in Range(v.labels)}

\* C24 as stated: every session span whose start and end timestamps fall on
\* days of the view, the last day and a single-day view included, is counted in
\* computeStats.sessions; the view's startISO and endISO are date-only labels.
C24_AsStated ==
    pc = "done" => stats.sessions >= Cardinality(SpansOnViewDays(data, view))

\* What the code does instead: a span that starts at a timestamp of the view's
\* last day compares above the date-only endISO and is never counted.
C24_LastDayNotCounted ==
    (pc = "done" /\ view.labels # << >>) =>
        stats.sessions =
            Cardinality({i \in DOMAIN data.session_spans :
                            /\ data.session_spans[i].start <= view.endISO
                            /\ data.session_spans[i].end >= view.startISO
                            /\ ~ (/\ HasTimePart(data.session_spans[i].start)
                                  /\ DayOfISO(data.session_spans[i].start) = view.endISO)})

\* a single-day view and one span inside that day: no session is counted
C24_SingleDayMissed ==
    /\ pc = "done"
    /\ view.labels = <<DateISO(2)>>
    /\ data.session_spans = <<[start |-> TimeISO(2, 1), end |-> TimeISO(2, 1)]>>
    /\ stats.sessions = 0

----------------------------------------------------------------------------
(* C27 *)

\* the date-only string k calendar days after iso
CalendarDays(iso, k) == iso + k * TimeSlots

WindowComputed == pc # "preset" /\ activeRange # "ALL" /\ data.range.start <= data.range.end

\* C27 as stated: for a preset of N days and minISO <= maxISO, in every time
\* zone, calcRangeByPreset returns end = maxISO and start = the later of minISO
\* and the date N - 1 calendar days before maxISO, so that 1D gives start = end.
C27_AsStated ==
    WindowComputed =>
        /\ reqEnd = data.range.end
        /\ reqStart = Max(data.range.start,
                          CalendarDays(data.range.end, 1 - PresetDays(activeRange)))

\* What the code does instead: where local time is ahead of UTC the start is
\* taken N calendar days before maxISO, one day too early.
C27_ShiftedWhenAhead ==
    WindowComputed =>
        /\ reqEnd = data.range.end
        /\ reqStart = Max(data.range.start,
                          CalendarDays(data.range.end,
                                       1 - PresetDays(activeRange) - (IF tzAhead THEN 1 ELSE 0)))

\* ahead of UTC the 1D preset spans two days
C27_OneDaySpansTwo ==
    /\ pc = "done"
    /\ tzAhead
    /\ activeRange = "1D"
    /\ data.range.start = DateISO(1) /\ data.range.end = DateISO(3)
    /\ reqStart = DateISO(2) /\ reqEnd = DateISO(3)

----------------------------------------------------------------------------
(* Regrouping run: three aggregates merged at once, and the first two merged *)
(* before the third as two successive calls of importFiles do                *)

RegroupLabels == {<< >>, <<DateISO(1)>>, <<DateISO(2), DateISO(1)>>}

RegroupDatasets ==
    {MergeData(labels, v) : labels \in RegroupLabels, v \in Variants}
    \cup {GhostData, [MergeData(<<DateISO(1)>>, 2) EXCEPT !.pricing = Some(BookZero)]}

\* mergeReportData on a list whose first element is the result of an earlier
\* call; item.daily raises when that result is null
mergeReportDataAfter(first, rest) ==
    IF first = NULL THEN Thrown
    ELSE Returned(mergeReportData(<<first[1]>> \o rest))

InitRegroup ==
    /\ datasets \in [1..3 -> RegroupDatasets]
    /\ merged = NULL
    /\ regrouped = Pending
    /\ pc = "start"
    /\ IdleLoose /\ IdleFlow /\ IdleHeap /\ IdleSwitch
    /\ IdleAux
    /\ swapped = NULL
    /\ data = NULL /\ reqStart = 0 /\ reqEnd = 0 /\ view = NULL /\ stats = NULL
    /\ model = << >> /\ book = NULL /\ rec = ZeroBreakdown /\ priced = NULL /\ cost = NULL

\* mergeReportData([A, B, C])
MergeAtOnce ==
    /\ pc = "start"
    /\ merged' = mergeReportData(datasets)
    /\ pc' = "merged"
    /\ UNCHANGED <<datasets, swapped, data, reqStart, reqEnd, view, stats,
                   model, book, rec, priced, cost>>
    /\ UNCHANGED <<auxVars, looseVars, flowVars, heapVars, switchVars, regrouped>>

\* mergeReportData([mergeReportData([A, B]), C])
MergeInTwoCalls ==
    /\ pc = "merged"
    /\ regrouped' = mergeReportDataAfter(mergeReportData(SubSeq(datasets, 1, 2)),
                                         <<datasets[3]>>)
    /\ pc' = "done"
    /\ UNCHANGED <<coreVars, auxVars, looseVars, flowVars, heapVars, switchVars>>

NextRegroup == MergeAtOnce \/ MergeInTwoCalls

SpecRegroup == InitRegroup /\ [][NextRegroup]_vars

----------------------------------------------------------------------------
(* C26 *)

SameMultiset(s, t) ==
    \A x \in Range(s) \cup Range(t) :
        Cardinality({i \in DOMAIN s : s[i] = x}) = Cardinality({i \in DOMAIN t : t[i] = x})

\* A or B has labels
FirstCallMerges ==
    Len(datasets[1].daily.labels) > 0 \/ Len(datasets[2].daily.labels) > 0

\* the members C26 lists
ListedMembersAgree(a, b) ==
    /\ a.daily = b.daily
    /\ a.daily_models = b.daily_models
    /\ a.hourly_daily = b.hourly_daily
    /\ SameMultiset(a.session_spans, b.session_spans)
    /\ SameMultiset(a.events, b.events)

\* C26 as stated: whenever A or B has labels, merging [merge([A, B]), C] and
\* merging [A, B, C] give the same labels, the same five series, the same
\* daily_models and hourly_daily and the same multiset of spans and events, so
\* that the result of successive imports does not depend on the grouping of
\* the files.
C26_AsStated ==
    (pc = "done" /\ FirstCallMerges) =>
        /\ regrouped.outcome = "return"
        /\ ListedMembersAgree(regrouped.value[1], merged[1])
        /\ regrouped.value[1].range = merged[1].range
        /\ regrouped.value[1].hourly = merged[1].hourly
        /\ regrouped.value[1].pricing = merged[1].pricing
        /\ regrouped.value[1].meta = merged[1].meta

\* What the code does: the listed members, range, hourly and meta agree; the
\* pricing agrees except when neither A nor B has pricing and C has labels and
\* pricing, and then the two calls give the empty table and the single call C's.
C26_PricingDependsOnGrouping ==
    (pc = "done" /\ FirstCallMerges) =>
        /\ regrouped.outcome = "return"
        /\ ListedMembersAgree(regrouped.value[1], merged[1])
        /\ regrouped.value[1].range = merged[1].range
        /\ regrouped.value[1].hourly = merged[1].hourly
        /\ regrouped.value[1].meta = merged[1].meta
        /\ LET firstHasNone == FirstPricing(ValidDatasets(SubSeq(datasets, 1, 2))) = EmptyBook
                                /\ \A k \in 1..2 : \/ datasets[k].pricing = NULL
                                                   \/ datasets[k].daily.labels = << >>
               thirdHasOne  == datasets[3].pricing # NULL /\ datasets[3].daily.labels # << >>
           IN  IF firstHasNone /\ thirdHasOne
               THEN /\ regrouped.value[1].pricing = Some(EmptyBook)
                    /\ merged[1].pricing = datasets[3].pricing
               ELSE regrouped.value[1].pricing = merged[1].pricing

\* two aggregates without pricing, then one with: the pricing is lost
C26_PricingLost ==
    /\ pc = "done"
    /\ datasets = <<MergeData(<<DateISO(1)>>, 1), MergeData(<<DateISO(1)>>, 1),
                    MergeData(<<DateISO(2), DateISO(1)>>, 2)>>
    /\ merged[1].pricing = Some(BookA)
    /\ regrouped.value[1].pricing = Some(EmptyBook)
    /\ ListedMembersAgree(regrouped.value[1], merged[1])

----------------------------------------------------------------------------
(* Switch run: the user asks for ranges, time passes, the timer fires, the   *)
(* component unmounts                                                        *)

\* the user asks for at most this many ranges between two switches
MaxRequests == 3

\* the time that passes in one step, in ms
TickMs == 250

InitSwitch ==
    /\ activeRange = "ALL"
    /\ rangeLoading = FALSE
    /\ timerRef = NULL
    /\ timers = {}
    /\ mounted = TRUE
    /\ requests = << >>
    /\ pc = "mounted"
    /\ regrouped = << >>
    /\ IdleLoose /\ IdleFlow /\ IdleHeap
    /\ IdleCore /\ IdleWalk
    /\ normalizedName = << >> /\ tzAhead = FALSE
    /\ maxPoints = 0 /\ chart = << >> /\ parsed = JUndefined /\ imported = << >>

\* handleRangeChange(range); requests keeps the ranges asked for that differ
\* from the active one
HandleRangeChange ==
    /\ mounted
    /\ Len(requests) < MaxRequests
    /\ \E range \in TimeRanges :
          /\ requests' = IF range = activeRange THEN requests ELSE Append(requests, range)
          /\ IF handleRangeChangeIgnores(range, activeRange, rangeLoading)
             THEN UNCHANGED <<rangeLoading, timerRef, timers>>
             ELSE /\ rangeLoading' = TRUE
                  /\ timerRef' = Some(Len(requests'))
                  /\ timers' = clearTimeout(timers, timerRef)
                                  \cup {[id |-> Len(requests'), range |-> range,
                                         remaining |-> RANGE_SWITCH_DELAY_MS]}
    /\ UNCHANGED <<coreVars, walkVars, normalizedName, activeRange, tzAhead, maxPoints,
                   chart, parsed, imported, looseVars, flowVars, regrouped, heapVars,
                   mounted, pc>>

\* time passes
Tick ==
    /\ \E t \in timers : t.remaining > 0
    /\ timers' = {[t EXCEPT !.remaining = Max(0, t.remaining - TickMs)] : t \in timers}
    /\ UNCHANGED <<coreVars, auxVars, looseVars, flowVars, regrouped, heapVars,
                   rangeLoading, timerRef, mounted, requests, pc>>

\* the callback given to setTimeout
TimerFires ==
    /\ \E t \in timers :
          /\ t.remaining = 0
          /\ activeRange' = t.range
          /\ timers' = timers \ {t}
    /\ rangeLoading' = FALSE
    /\ timerRef' = NULL
    /\ requests' = << >>
    /\ UNCHANGED <<coreVars, walkVars, normalizedName, tzAhead, maxPoints,
                   chart, parsed, imported, looseVars, flowVars, regrouped, heapVars,
                   mounted, pc>>

\* the cleanup of the effect of part_007 93-99
Unmount ==
    /\ mounted
    /\ mounted' = FALSE
    /\ timers' = clearTimeout(timers, timerRef)
    /\ pc' = "unmounted"
    /\ UNCHANGED <<coreVars, auxVars, looseVars, flowVars, regrouped, heapVars,
                   rangeLoading, timerRef, requests>>

NextSwitch == HandleRangeChange \/ Tick \/ TimerFires \/ Unmount

SpecSwitch == InitSwitch /\ [][NextSwitch]_vars

\* time passes and a timer that is due fires; the user and the unmount are free
FairSwitch == SpecSwitch /\ WF_vars(Tick) /\ WF_vars(TimerFires)

----------------------------------------------------------------------------
(* C28 *)

\* while mounted, rangeLoading holds exactly while a timer is pending, there is
\* at most one, timerRef names it and it carries the first range asked for
OnePending ==
    /\ Cardinality(timers) <= 1
    /\ (~mounted) => timers = {}
    /\ mounted => (rangeLoading <=> timers # {})
    /\ \A t \in timers :
          /\ timerRef = Some(t.id)
          /\ requests # << >>
          /\ t.range = Head(requests)
          /\ t.range # activeRange
    /\ (mounted /\ ~rangeLoading) => (timerRef = NULL /\ requests = << >>)

\* a request for the active range, or made while a switch is pending, changes
\* nothing; the timer's callback applies the first range asked for
SwitchSteps ==
    /\ (rangeLoading /\ rangeLoading' /\ mounted') =>
          (activeRange' = activeRange /\ timerRef' = timerRef
           /\ \A t \in timers' : \E u \in timers : u.id = t.id /\ u.range = t.range)
    /\ (requests' = requests /\ mounted' = mounted /\ timers' = timers) =>
          (activeRange' = activeRange /\ rangeLoading' = rangeLoading)
    /\ (rangeLoading /\ ~rangeLoading') =>
          (activeRange' = Head(requests) /\ timerRef' = NULL
           /\ \E t \in timers : t.remaining = 0)
    /\ activeRange' # activeRange => (rangeLoading /\ ~rangeLoading')

\* C28: range switching is a one-pending-request state machine.  A request for
\* the active range is a no-op and a request made while rangeLoading is ignored,
\* so at most one timer is pending and rangeLoading is true exactly while one
\* is; when the timer fires, RANGE_SWITCH_DELAY_MS after it was set, activeRange
\* becomes the first range asked for and rangeLoading becomes false; every
\* accepted request is eventually applied unless the component unmounts, and
\* then the timer is cleared and never fires.
C28_OnePendingRequest ==
    /\ []OnePending
    /\ [][SwitchSteps]_vars
    /\ \A range \in TimeRanges :
          (mounted /\ rangeLoading /\ requests # << >> /\ Head(requests) = range)
              ~> ((activeRange = range /\ ~rangeLoading) \/ ~mounted)

\* the switch to 1W was applied; then 1D was asked for, ALL was asked for while
\* 1D was pending and ignored, and the timer of 1D is due
C28_Witness ==
    /\ mounted
    /\ activeRange = "1W"
    /\ rangeLoading
    /\ requests = <<"1D", "ALL">>
    /\ timerRef = Some(1)
    /\ timers = {[id |-> 1, range |-> "1D", remaining |-> 0]}

----------------------------------------------------------------------------
(* Heap run: two aggregates on the heap; calcRangedView, computeStats and   *)
(* buildChartSeries on the first, mergeReportData on both, and each call a  *)
(* second time                                                              *)

HeapDatasets ==
    {MergeData(labels, v) : labels \in RegroupLabels, v \in Variants} \cup {GhostData}

\* the state of the heap when the inputs have been parsed
Parsed(ds) == StoreAll(<< >>, ds, << >>)

InitHeap ==
    /\ datasets \in [1..2 -> HeapDatasets]
    /\ heap = Parsed(datasets).heap
    /\ roots = Parsed(datasets).roots
    /\ results = [derived |-> Pending, merge |-> Pending,
                  mergeAgain |-> Pending, derivedAgain |-> Pending]
    /\ pc = "start"
    /\ IdleLoose /\ IdleFlow /\ IdleSwitch
    /\ regrouped = << >>
    /\ IdleAux
    /\ merged = NULL /\ swapped = NULL
    /\ data = NULL /\ reqStart = 0 /\ reqEnd = 0 /\ view = NULL /\ stats = NULL
    /\ model = << >> /\ book = NULL /\ rec = ZeroBreakdown /\ priced = NULL /\ cost = NULL

\* calcRangedView over the whole range of the first aggregate, computeStats
\* and buildChartSeries on that view; aggregateModels writes its out map
DerivedOnHeap(h, root) ==
    With(ReadAggregate(h, root), LAMBDA d :
    With(calcRangedView(d, d.range.start, d.range.end), LAMBDA v :
    With(aggregateModelsInPlace(h, root, v.labels), LAMBDA totals :
        [heap  |-> totals.heap,
         value |-> [view |-> v,
                    stats |-> computeStats(d, v),
                    modelTotals |-> ReadLeaves(totals.heap, totals.addr),
                    chart |-> buildChartSeries(d, v, DefaultMaxPoints)]])))

\* the aggregate mergeReportData returned, read from the heap
MergedOnHeap(h, inputs) ==
    With(mergeReportDataInPlace(h, inputs), LAMBDA call :
        [heap  |-> call.heap,
         refs  |-> call.value,
         value |-> IF call.value = NULL THEN NULL
                   ELSE Some([daily         |-> call.heap[call.value[1].daily],
                              daily_models  |-> ReadModels(call.heap, call.value[1].daily_models),
                              hourly_daily  |-> ReadLeaves(call.heap, call.value[1].hourly_daily),
                              session_spans |-> call.heap[call.value[1].session_spans],
                              events        |-> call.heap[call.value[1].events]])])

CallDerived ==
    /\ pc \in {"start", "again"}
    /\ LET call == DerivedOnHeap(heap, roots[1])
       IN  /\ heap' = call.heap
           /\ results' = IF pc = "start"
                         THEN [results EXCEPT !.derived = Returned(call.value)]
                         ELSE [results EXCEPT !.derivedAgain = Returned(call.value)]
    /\ pc' = IF pc = "start" THEN "derived" ELSE "done"
    /\ UNCHANGED <<coreVars, auxVars, looseVars, flowVars, switchVars, regrouped, roots>>

CallMerge ==
    /\ pc \in {"derived", "merged"}
    /\ LET call == MergedOnHeap(heap, roots)
       IN  /\ heap' = call.heap
           /\ results' = IF pc = "derived"
                         THEN [results EXCEPT !.merge = Returned(call.value) @@
                                                        [refs |-> call.refs]]
                         ELSE [results EXCEPT !.mergeAgain = Returned(call.value) @@
                                                             [refs |-> call.refs]]
    /\ pc' = IF pc = "derived" THEN "merged" ELSE "again"
    /\ UNCHANGED <<coreVars, auxVars, looseVars, flowVars, switchVars, regrouped, roots>>

NextHeap == CallDerived \/ CallMerge

SpecHeap == InitHeap /\ [][NextHeap]_vars

----------------------------------------------------------------------------
(* C22 *)

\* the members the heap run reads back from a merged aggregate
MergedMembers(m) ==
    [daily |-> m.daily, daily_models |-> m.daily_models, hourly_daily |-> m.hourly_daily,
     session_spans |-> m.session_spans, events |-> m.events]

\* the value mergeReportData gives for the inputs as they were parsed
ExpectedMerge ==
    LET m == mergeReportData(datasets)
    IN  IF m = NULL THEN NULL ELSE Some(MergedMembers(m[1]))

\* the values the derivations give for the first input as it was parsed
ExpectedDerived ==
    LET d == datasets[1]
        v == calcRangedView(d, d.range.start, d.range.end)
    IN  [view |-> v, stats |-> computeStats(d, v),
         modelTotals |-> aggregateModels(d, v.labels),
         chart |-> buildChartSeries(d, v, DefaultMaxPoints)]

\* C22: calcRangedView, computeStats, buildChartSeries and mergeReportData leave
\* every object of their inputs as it was, nested arrays and maps included: the
\* merge accumulates into objects it creates itself, after the inputs on the
\* heap, and a second call with the same inputs returns an equal result.
C22_InputsUnchanged ==
    /\ \A a \in DOMAIN Parsed(datasets).heap : heap[a] = Parsed(datasets).heap[a]
    /\ \A k \in DOMAIN datasets : ReadAggregate(heap, roots[k]) = datasets[k]
    /\ pc \in {"derived", "merged", "again", "done"} =>
          results.derived.value = ExpectedDerived
    /\ pc \in {"merged", "again", "done"} =>
          /\ results.merge.value = ExpectedMerge
          /\ results.merge.refs # NULL =>
                \A name \in DOMAIN results.merge.refs[1] :
                    results.merge.refs[1][name] > Len(Parsed(datasets).heap)
    /\ pc \in {"again", "done"} => results.mergeAgain.value = results.merge.value
    /\ pc = "done" => results.derivedAgain.value = results.derived.value

\* two aggregates that share a day and a model spelled in two ways: both calls
\* of the merge gave the sum and the inputs read as before
C22_Witness ==
    /\ pc = "done"
    /\ datasets = <<MergeData(<<DateISO(2), DateISO(1)>>, 2), MergeData(<<DateISO(1)>>, 2)>>
    /\ results.merge.value # NULL
    /\ results.mergeAgain.value = results.merge.value
    /\ results.merge.value[1].daily_models[DateISO(1)][GPT5].total_tokens
         = 2 * (BreakdownA.total_tokens + BreakdownB.total_tokens)
    /\ ReadAggregate(heap, roots[2]) = datasets[2]

====
